---- MODULE Spec2Model ----
(***************************************************************************)
(* Discord <-> GitHub bridge: the thread locator, the identity resolver,   *)
(* the thread cache and the sync handlers, modelled from utils.js (the     *)
(* generation starting at line 238 and the bot server at line 979) and     *)
(* from the webhook handlers (src/unnamed/part_001, generation at 410).    *)
(*                                                                         *)
(* Text is modelled as a sequence of tokens: one token for every substring *)
(* a regular expression or an includes() of the code looks at.             *)
(***************************************************************************)
EXTENDS Integers, Sequences, FiniteSets, TLC

VARIABLES
    pins,         \* pinned messages of the channel handed to getSyncedIssueInfo
    issuesOut,    \* what getSyncedIssueInfo returned (a sequence of entries)
    done,         \* the operation under study has run
    threads,      \* the chat platform's threads; a thread's id is its index
    availableTags,        \* forum.availableTags
    threadCache,          \* the in-memory Map threadCache
    threadCacheSaveTimer, \* a flush is pending (threadCacheSaveTimer !== null)
    cacheFile,            \* the entries of the persisted cache file
    threadCacheLoaded,    \* utils' threadCacheLoaded flag
    pendingIo,            \* the cache's armed timers and file calls in progress
    archPages,    \* the answers of the platform to fetchArchived, in order
    lastFind,     \* the latest findThreadsForIssue call: arguments and outcome
    currentRepo,  \* utils' currentRepo in the revision that keeps one (part_003 13)
    gh,           \* the tracker: labels, state and comments of the issues
    lastInstallationId,   \* the installation id the server remembers (0: none)
    runs,         \* the handler runs so far: event, position, requests made
    inbox         \* the webhook events the tracker has emitted and may (re)deliver

parseVars == <<pins, issuesOut, done>>
chatVars  == <<threads, availableTags, archPages>>
cacheIo == <<threadCacheLoaded, pendingIo>>
cacheVars == <<threadCache, threadCacheSaveTimer, cacheFile, threadCacheLoaded, pendingIo>>
findVars  == <<lastFind, currentRepo>>
trackerVars == <<gh, lastInstallationId, runs, inbox>>

vars == <<pins, issuesOut, done, threads, availableTags, threadCache,
          threadCacheSaveTimer, cacheFile, threadCacheLoaded, pendingIo,
          archPages, lastFind, currentRepo,
          gh, lastInstallationId, runs, inbox>>

(***************************************************************************)
(* Bounds                                                                  *)
(***************************************************************************)
MaxMsgLen == 3      \* tokens per message
MaxIssue  == 2      \* issue numbers 1..MaxIssue
MaxPages  == 2      \* scripted answers to fetchArchived

IssueNumbers == 1..MaxIssue

Null == "null"      \* JavaScript null

\* (owner, repo) pairs that occur in links and URLs
RepoIds == { <<"acme", "app">>, <<"other", "lib">> }

(***************************************************************************)
(* Tokens of a message text                                                *)
(*   cur  : `Synced with issue #n`            (capital S)                  *)
(*   leg  : `synced with issue #n`            (legacy, lower case)         *)
(*   link :  on [r](https://github.com/o/r)   (inline repository link)     *)
(*   url  : https://github.com/o/r/issues/n   (tracker issue URL)          *)
(*   nl   : a line break                                                   *)
(*   txt  : any other text                                                 *)
(***************************************************************************)
Tok(k, n, o, r) == [k |-> k, n |-> n, o |-> o, r |-> r]

MarkerTokens == { Tok(k, n, "", "") : k \in {"cur", "leg"}, n \in IssueNumbers }
RepoTokens   == { Tok(k, 0, p[1], p[2]) : k \in {"link", "url"}, p \in RepoIds }
PlainTokens  == { Tok("nl", 0, "", ""), Tok("txt", 0, "", "") }
Tokens       == MarkerTokens \cup RepoTokens \cup PlainTokens

SeqsUpTo(S, n) == UNION { [1..m -> S] : m \in 0..n }

Messages == SeqsUpTo(Tokens, MaxMsgLen)

(***************************************************************************)
(* Identity Resolver: getSyncedIssueInfo (utils.js 473-523)                *)
(***************************************************************************)
\* `.*on \[.+?\]\(https://github.com/o/r` after a marker at the token before i:
\* `.` does not cross a line break and `.*` is greedy, so the link the match
\* ends in is the last one on the marker's line (0: none).
RECURSIVE LastLinkOnLine(_, _, _)
LastLinkOnLine(content, i, best) ==
    IF i > Len(content) \/ content[i].k = "nl" THEN best
    ELSE LastLinkOnLine(content, i + 1, IF content[i].k = "link" THEN i ELSE best)

\* content.match(/`Synced with issue #(\d+)`.*on \[.+?\]\(https:\/\/github\.com\/([^/]+)\/([^/)]+)/)
\* from token i on: the capture groups <<n, owner, repo>> of the leftmost match, <<>> for null.
RECURSIVE CurrentMatchFrom(_, _)
CurrentMatchFrom(content, i) ==
    IF i > Len(content) THEN <<>>
    ELSE LET j == LastLinkOnLine(content, i + 1, 0) IN
         IF content[i].k = "cur" /\ j # 0
         THEN <<content[i].n, content[j].o, content[j].r>>
         ELSE CurrentMatchFrom(content, i + 1)

CurrentMatch(content) == CurrentMatchFrom(content, 1)

\* content.match(/`synced with issue #(\d+)`/i): case-insensitive, so it also
\* matches the capitalised marker. <<n>> of the leftmost match, <<>> for null.
RECURSIVE OldMatchFrom(_, _)
OldMatchFrom(content, i) ==
    IF i > Len(content) THEN <<>>
    ELSE IF content[i].k \in {"cur", "leg"} THEN <<content[i].n>>
    ELSE OldMatchFrom(content, i + 1)

OldMatch(content) == OldMatchFrom(content, 1)

\* content.match(/github\.com\/([^/]+)\/([^/]+)\/issues\/\d+/): <<owner, repo>> or <<>>.
RECURSIVE UrlMatchFrom(_, _)
UrlMatchFrom(content, i) ==
    IF i > Len(content) THEN <<>>
    ELSE IF content[i].k = "url" THEN <<content[i].o, content[i].r>>
    ELSE UrlMatchFrom(content, i + 1)

UrlMatch(content) == UrlMatchFrom(content, 1)

IssueRef(n, o, r) == [number |-> n, owner |-> o, repo |-> r]

\* A plausible slip: the legacy pattern is tried before the current one.
ParsePinnedMessage_LegacyFirst(content) ==
    LET cm == CurrentMatch(content)
        om == OldMatch(content)
        um == UrlMatch(content)
    IN  IF om # <<>>
        THEN <<IssueRef(om[1], IF um # <<>> THEN um[1] ELSE Null,
                               IF um # <<>> THEN um[2] ELSE Null)>>
        ELSE IF cm # <<>> THEN <<IssueRef(cm[1], cm[2], cm[3])>>
        ELSE <<>>

\* The body of pinnedMessages.forEach: the entries one message pushes (none or one).
ParsePinnedMessage(content) ==
    LET cm == CurrentMatch(content)
        om == OldMatch(content)
        um == UrlMatch(content)
    IN  IF cm # <<>> THEN <<IssueRef(cm[1], cm[2], cm[3])>>
        ELSE IF om # <<>>
        THEN <<IssueRef(om[1], IF um # <<>> THEN um[1] ELSE Null,
                               IF um # <<>> THEN um[2] ELSE Null)>>
        ELSE <<>>

RECURSIVE getSyncedIssueInfoFrom(_, _)
getSyncedIssueInfoFrom(pinned, i) ==
    IF i > Len(pinned) THEN <<>>
    ELSE ParsePinnedMessage(pinned[i]) \o getSyncedIssueInfoFrom(pinned, i + 1)

getSyncedIssueInfo(pinned) == getSyncedIssueInfoFrom(pinned, 1)

(***************************************************************************)
(* Names and titles                                                        *)
(***************************************************************************)
\* String.prototype.toLowerCase on the names the model uses
Lower(s) ==
    CASE s = "Acme"  -> "acme"
      [] s = "App"   -> "app"
      [] s = "Bug"   -> "bug"
      [] s = "Crash" -> "crash"
      [] OTHER       -> s

\* a title or thread name is a sequence of words and punctuation runs ("!")
IsPunct(w) == w = "!"

\* title.toLowerCase().replace(/[^a-z0-9]+/g, " ").trim(): the lower-cased words
RECURSIVE NormalizeTitle(_)
NormalizeTitle(t) ==
    IF t = <<>> THEN <<>>
    ELSE IF IsPunct(Head(t)) THEN NormalizeTitle(Tail(t))
    ELSE <<Lower(Head(t))>> \o NormalizeTitle(Tail(t))

\* issueTitle = null (or ""): no title hint
NoTitle == <<>>

\* a.includes(b) on normalized titles: b occurs in a as a run of whole words
Includes(a, b) ==
    \E i \in 0..(Len(a) - Len(b)) : SubSeq(a, i + 1, i + Len(b)) = b

(***************************************************************************)
(* Forum tags (utils.js 250-309)                                           *)
(***************************************************************************)
SYNC_LABEL             == "synced"        \* the sync marker label
REPO_TAG_EMOJI         == "compass"
CLOSED_TAG_NAME        == "closed"
CLOSED_TAG_EMOJI       == "check"
CLOSED_TAG_LEGACY_NAME == "check-closed"
NoEmoji                == ""

Tag(id, name, emoji) == [id |-> id, name |-> name, emoji |-> emoji]

getTagEmojiName(tag) == tag.emoji
isRepoSelectorTag(tag) == getTagEmojiName(tag) = REPO_TAG_EMOJI
isClosedTagName(name) ==
    Lower(name) = Lower(CLOSED_TAG_NAME) \/ Lower(name) = Lower(CLOSED_TAG_LEGACY_NAME)
isClosedTag(tag) == getTagEmojiName(tag) = CLOSED_TAG_EMOJI \/ isClosedTagName(tag.name)
isSyncLabel(labelName) == labelName = SYNC_LABEL

SeqToSet(q) == { q[i] : i \in 1..Len(q) }
SeqContains(q, x) == \E i \in 1..Len(q) : q[i] = x

RECURSIVE SelectSeq2(_, _)
\* Array.prototype.filter with a predicate given as the set of kept values
SelectSeq2(q, keep) ==
    IF q = <<>> THEN <<>>
    ELSE (IF Head(q) \in keep THEN <<Head(q)>> ELSE <<>>) \o SelectSeq2(Tail(q), keep)

(***************************************************************************)
(* The chat platform: threads of the forum                                 *)
(***************************************************************************)
ForumId   == "forum"       \* env.DISCORD_INPUT_FORUM_CHANNEL_ID
Elsewhere == "elsewhere"   \* any other parent channel

Thread(name, parentId, status, archived, appliedTags, pinned, pinFetch) ==
    [name |-> name, parentId |-> parentId, status |-> status, archived |-> archived,
     appliedTags |-> appliedTags, pinned |-> pinned, pinFetch |-> pinFetch, sent |-> <<>>,
     starter |-> <<>>, starterBot |-> FALSE]

(***************************************************************************)
(* Thread Identity Cache (utils.js 324-397)                                *)
(***************************************************************************)
\* `${owner.toLowerCase()}/${repo.toLowerCase()}#${issueNumber}`
getThreadCacheKey(owner, repo, issueNumber) == <<Lower(owner), Lower(repo), issueNumber>>

NoEntry == [threadId |-> 0, title |-> <<>>]
CacheEntry(threadId, title) == [threadId |-> threadId, title |-> title]

\* the falsy arguments of the three cache functions
Falsy(owner, repo, issueNumber) == owner = Null \/ repo = Null \/ issueNumber = 0

getThreadCacheEntry(cache, owner, repo, issueNumber) ==
    IF Falsy(owner, repo, issueNumber) THEN NoEntry
    ELSE IF getThreadCacheKey(owner, repo, issueNumber) \in DOMAIN cache
         THEN cache[getThreadCacheKey(owner, repo, issueNumber)]
         ELSE NoEntry

setThreadCacheEntry(cache, owner, repo, issueNumber, entry) ==
    IF Falsy(owner, repo, issueNumber) \/ entry.threadId = 0 THEN cache
    ELSE [k \in DOMAIN cache \cup {getThreadCacheKey(owner, repo, issueNumber)} |->
            IF k = getThreadCacheKey(owner, repo, issueNumber) THEN entry ELSE cache[k]]

deleteThreadCacheEntry(cache, owner, repo, issueNumber) ==
    IF Falsy(owner, repo, issueNumber) THEN cache
    ELSE [k \in DOMAIN cache \ {getThreadCacheKey(owner, repo, issueNumber)} |-> cache[k]]

EmptyCache == [k \in {} |-> NoEntry]

(***************************************************************************)
(* Thread Locator: findThreadsForIssue (utils.js 699-942)                  *)
(***************************************************************************)
RECURSIVE FilterIds(_, _, _)
\* the ids i..n that are in keep, ascending
FilterIds(i, n, keep) ==
    IF i > n THEN <<>>
    ELSE (IF i \in keep THEN <<i>> ELSE <<>>) \o FilterIds(i + 1, n, keep)

InForum(th) == th.status = "live" /\ th.parentId = ForumId

\* forum.threads.fetchActive()
ActiveThreadIds(ths) ==
    FilterIds(1, Len(ths), { i \in 1..Len(ths) : InForum(ths[i]) /\ ~ths[i].archived })

\* the archived threads of the forum (fewer than the page limit of 100)
ArchivedThreadIds(ths) ==
    FilterIds(1, Len(ths), { i \in 1..Len(ths) : InForum(ths[i]) /\ ths[i].archived })

\* One answer of forum.threads.fetchArchived({before, limit: 100}):
\* kind "threads" (the archived threads), "empty" (no thread) or "throws".
Page(kind, hasMore) == [kind |-> kind, hasMore |-> hasMore]

\* what the platform answers when it behaves: one page, no further pages
HonestPages == <<Page("threads", FALSE)>>

\* the answer to the p-th request; past the scripted answers the listing has ended
UpstreamPage(pages, p) == IF p <= Len(pages) THEN pages[p] ELSE Page("empty", FALSE)

PageThreads(ths, page) == IF page.kind = "threads" THEN ArchivedThreadIds(ths) ELSE <<>>

\* A plausible slip: the empty page does not end the loop.
NextHasMore_IgnoreEmpty(archivedHasMore, pageCount) == archivedHasMore

\* hasMore = archived.hasMore; if (pageCount > 0) {...} else hasMore = false  (765, 774-778)
NextHasMore(archivedHasMore, pageCount) == archivedHasMore /\ pageCount > 0

RECURSIVE FetchArchivedLoop(_, _, _, _, _)
\* while (hasMore) { try { fetchArchived ... } catch { break } }   (757-787)
\* fetches counts the requests made, the failing one included
FetchArchivedLoop(ths, pages, fetches, hasMore, all) ==
    IF ~hasMore THEN [threads |-> all, fetches |-> fetches]
    ELSE LET archived == UpstreamPage(pages, fetches + 1) IN
         IF archived.kind = "throws"
         THEN [threads |-> all, fetches |-> fetches + 1]
         ELSE LET ids == PageThreads(ths, archived) IN
              FetchArchivedLoop(ths, pages, fetches + 1,
                                NextHasMore(archived.hasMore, Len(ids)), all \o ids)

\* allThreads: the active threads, then the archived pages (748-787)
EnumerateThreads(ths, pages) ==
    LET loop == FetchArchivedLoop(ths, pages, 0, TRUE, ActiveThreadIds(ths))
    IN  [all |-> loop.threads, fetches |-> loop.fetches]

\* repoTagIds (789-794)
RepoTagIds(tags, repo) ==
    IF repo = Null THEN {}
    ELSE { tags[i].id : i \in { j \in 1..Len(tags) :
              isRepoSelectorTag(tags[j]) /\ Lower(tags[j].name) = Lower(repo) } }

\* A plausible slip: the narrowed list is used even when it is empty.
CandidateThreads_NoFallback(ths, tags, all, repo) ==
    LET repoTagIds == RepoTagIds(tags, repo)
        tagged == { i \in SeqToSet(all) :
                      \E x \in 1..Len(ths[i].appliedTags) : ths[i].appliedTags[x] \in repoTagIds }
    IN  IF repo = Null THEN all ELSE SelectSeq2(all, tagged)

\* candidateThreads (796-802)
CandidateThreads(ths, tags, all, repo) ==
    LET repoTagIds == RepoTagIds(tags, repo)
        tagged == { i \in SeqToSet(all) :
                      \E x \in 1..Len(ths[i].appliedTags) : ths[i].appliedTags[x] \in repoTagIds }
        taggedThreads == IF repoTagIds # {} THEN SelectSeq2(all, tagged) ELSE <<>>
    IN  IF taggedThreads # <<>> THEN taggedThreads ELSE all

\* orderedThreads (811-823): a stable sort that puts the title matches first
OrderedThreads(ths, candidates, issueTitle) ==
    LET normalizedIssueTitle == NormalizeTitle(issueTitle)
        matches == { i \in SeqToSet(candidates) :
                        LET name == NormalizeTitle(ths[i].name) IN
                        Includes(name, normalizedIssueTitle) \/ Includes(normalizedIssueTitle, name) }
    IN  IF normalizedIssueTitle = <<>> THEN candidates
        ELSE SelectSeq2(candidates, matches)
             \o SelectSeq2(candidates, SeqToSet(candidates) \ matches)

NoMatch == [match |-> FALSE, owner |-> Null, repo |-> Null]

\* A plausible slip: a marker of the current format is accepted on its number alone.
MessageMatch_IgnoreRepo(content, issueNumber, owner, repo) ==
    LET cm == CurrentMatch(content)
        om == OldMatch(content)
        um == UrlMatch(content)
        msgOwner == IF um # <<>> THEN um[1] ELSE Null
        msgRepo  == IF um # <<>> THEN um[2] ELSE Null
    IN  IF cm # <<>>
        THEN IF cm[1] = issueNumber
             THEN [match |-> TRUE, owner |-> cm[2], repo |-> cm[3]]
             ELSE NoMatch
        ELSE IF om # <<>> /\ om[1] = issueNumber
                /\ (owner = Null \/ repo = Null \/ msgOwner = Null \/ msgRepo = Null
                    \/ (msgOwner = owner /\ msgRepo = repo))
             THEN [match |-> TRUE, owner |-> msgOwner, repo |-> msgRepo]
             ELSE NoMatch

\* one pinned message against the queried issue (876-926): whether it matches and
\* the owner/repo the cache entry is written under (Null: no cache write)
MessageMatch(content, issueNumber, owner, repo) ==
    LET cm == CurrentMatch(content)
        om == OldMatch(content)
        um == UrlMatch(content)
        msgOwner == IF um # <<>> THEN um[1] ELSE Null
        msgRepo  == IF um # <<>> THEN um[2] ELSE Null
    IN  IF cm # <<>>
        THEN IF cm[1] = issueNumber
                /\ (owner = Null \/ repo = Null \/ (cm[2] = owner /\ cm[3] = repo))
             THEN [match |-> TRUE, owner |-> cm[2], repo |-> cm[3]]
             ELSE NoMatch
        ELSE IF om # <<>> /\ om[1] = issueNumber
                /\ (owner = Null \/ repo = Null \/ msgOwner = Null \/ msgRepo = Null
                    \/ (msgOwner = owner /\ msgRepo = repo))
             THEN [match |-> TRUE, owner |-> msgOwner, repo |-> msgRepo]
             ELSE NoMatch

RECURSIVE ScanPinned(_, _, _, _, _)
\* for (const item of pinnedMessages): the first matching message wins (871-927)
ScanPinned(pinned, k, issueNumber, owner, repo) ==
    IF k > Len(pinned) THEN NoMatch
    ELSE LET m == MessageMatch(pinned[k], issueNumber, owner, repo) IN
         IF m.match THEN m ELSE ScanPinned(pinned, k + 1, issueNumber, owner, repo)

RECURSIVE ScanCandidates_LastMatch(_, _, _, _, _, _, _)
\* A plausible slip: the scan does not stop at the first match, the last one wins.
ScanCandidates_LastMatch(ths, ordered, i, pinFetches, issueNumber, owner, repo) ==
    IF i > Len(ordered)
    THEN [found |-> 0, owner |-> Null, repo |-> Null, pinFetches |-> pinFetches]
    ELSE LET Later(rest) ==
                 IF ths[ordered[i]].pinFetch # "ok" \/ rest.found # 0 THEN rest
                 ELSE LET m == ScanPinned(ths[ordered[i]].pinned, 1, issueNumber, owner, repo) IN
                      IF m.match
                      THEN [found |-> ordered[i], owner |-> m.owner, repo |-> m.repo,
                            pinFetches |-> rest.pinFetches]
                      ELSE rest
         IN  Later(ScanCandidates_LastMatch(ths, ordered, i + 1, pinFetches + 1,
                                            issueNumber, owner, repo))

RECURSIVE ScanCandidates_AbortOnTimeout(_, _, _, _, _, _, _)
\* A plausible slip: a pin fetch that fails or times out ends the scan.
ScanCandidates_AbortOnTimeout(ths, ordered, i, pinFetches, issueNumber, owner, repo) ==
    IF i > Len(ordered)
    THEN [found |-> 0, owner |-> Null, repo |-> Null, pinFetches |-> pinFetches]
    ELSE LET th == ths[ordered[i]] IN
         IF th.pinFetch # "ok"
         THEN [found |-> 0, owner |-> Null, repo |-> Null, pinFetches |-> pinFetches + 1]
         ELSE LET m == ScanPinned(th.pinned, 1, issueNumber, owner, repo) IN
              IF m.match
              THEN [found |-> ordered[i], owner |-> m.owner, repo |-> m.repo,
                    pinFetches |-> pinFetches + 1]
              ELSE ScanCandidates_AbortOnTimeout(ths, ordered, i + 1, pinFetches + 1,
                                                 issueNumber, owner, repo)

RECURSIVE ScanCandidates(_, _, _, _, _, _, _)
\* for (const thread of orderedThreads): a failed or timed-out pin fetch skips the
\* candidate, the first candidate with a matching pin ends the scan (837-932)
ScanCandidates(ths, ordered, i, pinFetches, issueNumber, owner, repo) ==
    IF i > Len(ordered)
    THEN [found |-> 0, owner |-> Null, repo |-> Null, pinFetches |-> pinFetches]
    ELSE LET th == ths[ordered[i]] IN
         IF th.pinFetch # "ok"
         THEN ScanCandidates(ths, ordered, i + 1, pinFetches + 1, issueNumber, owner, repo)
         ELSE LET m == ScanPinned(th.pinned, 1, issueNumber, owner, repo) IN
              IF m.match
              THEN [found |-> ordered[i], owner |-> m.owner, repo |-> m.repo,
                    pinFetches |-> pinFetches + 1]
              ELSE ScanCandidates(ths, ordered, i + 1, pinFetches + 1, issueNumber, owner, repo)

\* client.channels.fetch(cached.threadId) throws: the channel is gone, or the
\* request fails (fetchFails)
CachedFetchThrows(ths, threadId, fetchFails) ==
    fetchFails \/ threadId \notin 1..Len(ths) \/ ths[threadId].status = "deleted"

\* A plausible slip: the parent of the cached thread is not compared with the forum.
CacheHit_NoParentCheck(ths, cached, fetchFails) ==
    cached.threadId # 0 /\ ~CachedFetchThrows(ths, cached.threadId, fetchFails)

\* A plausible slip: the cache is never consulted.
CacheHit_Never(ths, cached, fetchFails) == FALSE

\* cached?.threadId, the fetch succeeds and cachedThread.parentId === forumChannelId (712-715)
CacheHit(ths, cached, fetchFails) ==
    /\ cached.threadId # 0
    /\ ~CachedFetchThrows(ths, cached.threadId, fetchFails)
    /\ ths[cached.threadId].parentId = ForumId

\* findThreadsForIssue(client, forumChannelId, issueNumber, owner, repo, issueTitle):
\* the threads returned, the cache afterwards and the requests made.
\*   fetchFails: the request for the cached thread fails
findThreadsForIssue(ths, tags, cache, pages, issueNumber, owner, repo, issueTitle, fetchFails) ==
    LET cached == IF owner # Null /\ repo # Null
                  THEN getThreadCacheEntry(cache, owner, repo, issueNumber)
                  ELSE NoEntry
    IN
    IF CacheHit(ths, cached, fetchFails)
    THEN [threads |-> <<cached.threadId>>, cache |-> cache, cacheWritten |-> FALSE,
          hit |-> TRUE, invalidated |-> FALSE,
          activeFetches |-> 0, archivedFetches |-> 0, pinFetches |-> 0]
    ELSE LET Search(cache1, enum, scan) ==
                 [threads |-> IF scan.found # 0 THEN <<scan.found>> ELSE <<>>,
                  cache |-> IF scan.found # 0
                            THEN setThreadCacheEntry(cache1, scan.owner, scan.repo, issueNumber,
                                                     CacheEntry(scan.found, ths[scan.found].name))
                            ELSE cache1,
                  cacheWritten |-> cached.threadId # 0
                                   \/ (scan.found # 0 /\ ~Falsy(scan.owner, scan.repo, issueNumber)),
                  hit |-> FALSE, invalidated |-> cached.threadId # 0,
                  activeFetches |-> 1, archivedFetches |-> enum.fetches,
                  pinFetches |-> scan.pinFetches]
             Scan(enum) ==
                 ScanCandidates(ths,
                                OrderedThreads(ths, CandidateThreads(ths, tags, enum.all, repo),
                                               issueTitle),
                                1, 0, issueNumber, owner, repo)
             Enumerated(cache1, enum) == Search(cache1, enum, Scan(enum))
         IN  Enumerated(IF cached.threadId # 0
                        THEN deleteThreadCacheEntry(cache, owner, repo, issueNumber)
                        ELSE cache,
                        EnumerateThreads(ths, pages))

(***************************************************************************)
(* The tracker: issues, their labels and the labels of a repository        *)
(***************************************************************************)
DefaultRepo == <<"acme", "app">>      \* env.TARGET_REPO, getDefaultRepo()
RepoKeys    == { <<"acme", "app">>, <<"other", "lib">> }
IssueKeys   == { <<"acme", "app", 1>>, <<"acme", "app", 2>>, <<"other", "lib", 2>> }

\* the tracker's state: the labels on each issue, each issue's state, the labels
\* a repository defines, the comments of each issue, the issues made by the bridge
Tracker(labels, state, repoLabels, comments) ==
    [labels |-> labels, state |-> state, repoLabels |-> repoLabels, comments |-> comments,
     created |-> <<>>]

NoIssues == Tracker([k \in IssueKeys |-> {}], [k \in IssueKeys |-> "open"],
                    [k \in RepoKeys |-> {}], [k \in IssueKeys |-> <<>>])

\* one request to the tracker
Call(op, owner, repo, number, name) ==
    [op |-> op, owner |-> owner, repo |-> repo, number |-> number, name |-> name]

\* handler progress: the tracker state, the requests made so far, and whether
\* a request's error has left the handler's try block
Progress(g, cs, thrown) == [gh |-> g, calls |-> cs, thrown |-> thrown]

\* the status of DELETE .../labels/{name}: 404 when the label is not on the issue
RemoveStatus(g, owner, repo, number, name) ==
    IF name \in g.labels[<<owner, repo, number>>] THEN 200 ELSE 404

\* getOrCreateGitHubLabel (utils.js 673-697): GET the label, create it on a 404
getOrCreateGitHubLabel(st, owner, repo, labelName) ==
    LET get == Call("GET label", owner, repo, 0, labelName) IN
    IF st.thrown THEN st
    ELSE IF labelName \in st.gh.repoLabels[<<owner, repo>>]
    THEN Progress(st.gh, st.calls \o <<get>>, FALSE)
    ELSE Progress([st.gh EXCEPT !.repoLabels[<<owner, repo>>] = @ \cup {labelName}],
                  st.calls \o <<get, Call("POST label", owner, repo, 0, labelName)>>,
                  FALSE)

\* POST /repos/{owner}/{repo}/issues/{issue_number}/labels
AddIssueLabel(st, owner, repo, number, name) ==
    IF st.thrown THEN st
    ELSE Progress([st.gh EXCEPT !.labels[<<owner, repo, number>>] = @ \cup {name},
                                !.repoLabels[<<owner, repo>>] = @ \cup {name}],
                  st.calls \o <<Call("POST issue label", owner, repo, number, name)>>,
                  FALSE)

\* A plausible slip: every error of the removal leaves the handler.
Rethrow_Always(status) == status # 200

\* catch (err) { if (err.status !== 404) throw err; } (utils.js 1410-1412)
Rethrow(status) == status # 200 /\ status # 404

\* DELETE /repos/{owner}/{repo}/issues/{issue_number}/labels/{name}
RemoveIssueLabel(st, owner, repo, number, name) ==
    IF st.thrown THEN st
    ELSE Progress([st.gh EXCEPT !.labels[<<owner, repo, number>>] = @ \ {name}],
                  st.calls \o <<Call("DELETE issue label", owner, repo, number, name)>>,
                  Rethrow(RemoveStatus(st.gh, owner, repo, number, name)))

\* PATCH /repos/{owner}/{repo}/issues/{issue_number} {state}
SetIssueState(st, owner, repo, number, state) ==
    IF st.thrown THEN st
    ELSE Progress([st.gh EXCEPT !.state[<<owner, repo, number>>] = state],
                  st.calls \o <<Call("PATCH issue state", owner, repo, number, state)>>,
                  FALSE)

(***************************************************************************)
(* handleThreadUpdate (utils.js 1306-1421)                                 *)
(***************************************************************************)
NoTag == Tag(0, "", NoEmoji)

\* tagMap.get(tagId)
TagById(tags, id) ==
    IF \E i \in 1..Len(tags) : tags[i].id = id
    THEN tags[CHOOSE i \in 1..Len(tags) : tags[i].id = id]
    ELSE NoTag

\* syncedRepoNames (1356-1364)
SyncedRepoNames(synced) ==
    LET names == { Lower(synced[i].repo) : i \in { j \in 1..Len(synced) : synced[j].repo # Null } }
    IN  IF names = {} THEN { Lower(DefaultRepo[2]) } ELSE names

\* A plausible slip: the repository-selector tag is not skipped.
SkipTag_NoSelector(tag, repoNames) ==
    tag.name = "" \/ isSyncLabel(tag.name) \/ Lower(tag.name) \in repoNames

\* !tagName || isSyncLabel(tagName) || isRepoSelectorTag(tag) || isRepoNameTag(tagName)
SkipTag(tag, repoNames) ==
    tag.name = "" \/ isSyncLabel(tag.name) \/ isRepoSelectorTag(tag)
    \/ Lower(tag.name) \in repoNames

RECURSIVE AddLabelsFor(_, _, _, _, _, _, _)
\* for (const tagId of addedTagIds) (1372-1390)
AddLabelsFor(st, tags, ids, repoNames, owner, repo, number) ==
    IF ids = <<>> THEN st
    ELSE LET tag == TagById(tags, Head(ids)) IN
         AddLabelsFor(
             IF SkipTag(tag, repoNames) THEN st
             ELSE AddIssueLabel(getOrCreateGitHubLabel(st, owner, repo, tag.name),
                                owner, repo, number, tag.name),
             tags, Tail(ids), repoNames, owner, repo, number)

RECURSIVE RemoveLabelsFor(_, _, _, _, _, _, _)
\* for (const tagId of removedTagIds) (1392-1413)
RemoveLabelsFor(st, tags, ids, repoNames, owner, repo, number) ==
    IF ids = <<>> THEN st
    ELSE LET tag == TagById(tags, Head(ids)) IN
         RemoveLabelsFor(
             IF SkipTag(tag, repoNames) THEN st
             ELSE RemoveIssueLabel(st, owner, repo, number, tag.name),
             tags, Tail(ids), repoNames, owner, repo, number)

\* const owner = issueOwner || defaultRepo.owner; const repo = repoName || defaultRepo.repo
OwnerOf(ref) == IF ref.owner = Null THEN DefaultRepo[1] ELSE ref.owner
RepoOf(ref)  == IF ref.repo = Null THEN DefaultRepo[2] ELSE ref.repo

RECURSIVE SyncArchiveState(_, _, _)
\* the archive flag flipped: set every synced issue's state (1323-1342)
SyncArchiveState(st, synced, state) ==
    IF synced = <<>> THEN st
    ELSE SyncArchiveState(
             SetIssueState(st, OwnerOf(Head(synced)), RepoOf(Head(synced)),
                           Head(synced).number, state),
             Tail(synced), state)

RECURSIVE SyncTagChanges(_, _, _, _, _, _)
\* for (const {...} of syncedIssues): the added tags, then the removed ones (1368-1414)
SyncTagChanges(st, tags, synced, added, removed, repoNames) ==
    IF synced = <<>> THEN st
    ELSE LET owner == OwnerOf(Head(synced))
             repo == RepoOf(Head(synced))
             afterAdd == AddLabelsFor(st, tags, added, repoNames, owner, repo,
                                      Head(synced).number)
         IN  SyncTagChanges(
                 RemoveLabelsFor(afterAdd, tags, removed, repoNames, owner, repo,
                                 Head(synced).number),
                 tags, Tail(synced), added, removed, repoNames)

\* handleThreadUpdate(oldThread, newThread): the tracker afterwards and the
\* requests made. installationId = 0: getOctokit() throws, the catch logs it.
handleThreadUpdate(g, tags, oldThread, newThread, installationId) ==
    LET synced == getSyncedIssueInfo(newThread.pinned)
        st0 == Progress(g, <<>>, FALSE)
        st1 == IF oldThread.archived # newThread.archived
               THEN SyncArchiveState(st0, synced,
                                     IF newThread.archived THEN "closed" ELSE "open")
               ELSE st0
        oldTags == oldThread.appliedTags
        newTags == newThread.appliedTags
        added   == SelectSeq2(newTags, SeqToSet(newTags) \ SeqToSet(oldTags))
        removed == SelectSeq2(oldTags, SeqToSet(oldTags) \ SeqToSet(newTags))
    IN  IF newThread.parentId # ForumId \/ synced = <<>> \/ installationId = 0 THEN st0
        ELSE IF SeqToSet(oldTags) = SeqToSet(newTags) THEN st1
        ELSE SyncTagChanges(st1, tags, synced, added, removed, SyncedRepoNames(synced))

(***************************************************************************)
(* Forum tags of the channel: getOrCreateForumTag (utils.js 615-671),      *)
(* getOrCreateClosedForumTag (utils.js 311-322)                            *)
(***************************************************************************)
ForumTagLimit  == 20    \* Discord limit: 20 tags per forum
ThreadTagLimit == 5     \* the applied tags a thread may hold

\* forum.availableTags.find((t) => t.name.toLowerCase() === tagName.toLowerCase())
FindTagByName(tags, tagName) ==
    IF \E i \in 1..Len(tags) : Lower(tags[i].name) = Lower(tagName)
    THEN tags[CHOOSE i \in 1..Len(tags) :
                 /\ Lower(tags[i].name) = Lower(tagName)
                 /\ \A j \in 1..(i - 1) : Lower(tags[j].name) # Lower(tagName)]
    ELSE NoTag

\* the id the platform gives a tag it creates
NewTagId(tags) ==
    1 + (CHOOSE m \in {0} \cup { tags[i].id : i \in 1..Len(tags) } :
            \A i \in 1..Len(tags) : tags[i].id <= m)

TagResult(tags, tag) == [tags |-> tags, tag |-> tag]

\* A plausible slip: the tag is created whatever the number of tags.
getOrCreateForumTag_NoCeiling(tags, tagName, emoji) ==
    LET existingTag == FindTagByName(tags, tagName)
        updatedTags == [i \in 1..Len(tags) |->
                          IF tags[i].id = existingTag.id
                          THEN [tags[i] EXCEPT !.emoji = emoji] ELSE tags[i]]
        createdTags == Append(tags, Tag(NewTagId(tags), tagName, emoji))
    IN  IF existingTag # NoTag
        THEN IF emoji # NoEmoji /\ getTagEmojiName(existingTag) # emoji
             THEN TagResult(updatedTags, FindTagByName(updatedTags, tagName))
             ELSE TagResult(tags, existingTag)
        ELSE TagResult(createdTags, FindTagByName(createdTags, tagName))

getOrCreateForumTag(tags, tagName, emoji) ==
    LET existingTag == FindTagByName(tags, tagName)
        updatedTags == [i \in 1..Len(tags) |->
                          IF tags[i].id = existingTag.id
                          THEN [tags[i] EXCEPT !.emoji = emoji] ELSE tags[i]]
        createdTags == Append(tags, Tag(NewTagId(tags), tagName, emoji))
    IN  IF existingTag # NoTag
        THEN IF emoji # NoEmoji /\ getTagEmojiName(existingTag) # emoji
             THEN TagResult(updatedTags, FindTagByName(updatedTags, tagName))
             ELSE TagResult(tags, existingTag)
        ELSE IF Len(tags) >= ForumTagLimit THEN TagResult(tags, NoTag)
        ELSE TagResult(createdTags, FindTagByName(createdTags, tagName))

\* forum.availableTags.find((tag) => isClosedTag(tag)) || null
findClosedForumTag(tags) ==
    IF \E i \in 1..Len(tags) : isClosedTag(tags[i])
    THEN tags[CHOOSE i \in 1..Len(tags) :
                 isClosedTag(tags[i]) /\ \A j \in 1..(i - 1) : ~isClosedTag(tags[j])]
    ELSE NoTag

getOrCreateClosedForumTag(tags) ==
    LET existing == findClosedForumTag(tags)
        hasLegacyName == Lower(existing.name) = Lower(CLOSED_TAG_LEGACY_NAME)
        fixed == getOrCreateForumTag(tags, existing.name, CLOSED_TAG_EMOJI)
    IN  IF existing # NoTag
        THEN IF ~hasLegacyName /\ getTagEmojiName(existing) # CLOSED_TAG_EMOJI
             THEN TagResult(fixed.tags, findClosedForumTag(fixed.tags))
             ELSE TagResult(tags, existing)
        ELSE getOrCreateForumTag(tags, CLOSED_TAG_NAME, CLOSED_TAG_EMOJI)

(***************************************************************************)
(* Comment bodies. Further tokens of a text:                               *)
(*   says : **u** on Discord says]   (u a non-empty user name)             *)
(*   mark : ** on Discord says]      (the marker with no name before it)   *)
(*   ref  : #n                                                             *)
(*   tref : [#n](url of thread r)                                          *)
(***************************************************************************)
BridgeLogin == "Discord-Github-Bridge"

Comment(login, body) == [login |-> login, body |-> body]

\* comment.body.includes("** on Discord says]")
HasDiscordMarker(body) == \E i \in 1..Len(body) : body[i].k \in {"says", "mark"}

\* isIgnoredComment (payloadProcessor 443-448)
isIgnoredComment(comment) ==
    comment.login = BridgeLogin \/ HasDiscordMarker(comment.body)

\* extractDiscordUsername (botServer): /\*\*(.+?)\*\* on Discord says\]/, first match
extractDiscordUsername(commentBody) ==
    IF \E i \in 1..Len(commentBody) : commentBody[i].k = "says"
    THEN commentBody[CHOOSE i \in 1..Len(commentBody) :
                        /\ commentBody[i].k = "says"
                        /\ \A j \in 1..(i - 1) : commentBody[j].k # "says"].o
    ELSE Null

\* A plausible slip: the attribution line loses its closing bracket.
formatDiscordAuthorComment_NoMarker(username, content) ==
    <<Tok("txt", 0, "", ""), Tok("nl", 0, "", "")>> \o content

\* formatDiscordAuthorComment (utils.js 535-538)
formatDiscordAuthorComment(username, content) ==
    <<Tok("says", 0, username, ""), Tok("nl", 0, "", "")>> \o content

\* A plausible slip: the handler looks for the marker under the name the chat
\* side shows it.
hasSyncLabel_ChatName(issue) ==
    \E i \in 1..Len(issue.labels) : issue.labels[i] = "Synced"

\* hasSyncLabel (utils.js 531-533) on the labels of a payload's issue
hasSyncLabel(issue) == \E i \in 1..Len(issue.labels) : issue.labels[i] = SYNC_LABEL

(***************************************************************************)
(* The parts of the state a specification does not use                     *)
(***************************************************************************)
NoFind ==
    [called |-> FALSE, issueNumber |-> 0, owner |-> Null, repo |-> Null, issueTitle |-> <<>>,
     fetchFails |-> FALSE, cachedBefore |-> 0, cachedGone |-> FALSE, hit |-> FALSE, invalidated |-> FALSE,
     threads |-> <<>>, activeFetches |-> 0, archivedFetches |-> 0, pinFetches |-> 0,
     prevSame |-> FALSE, prevStale |-> 0]

NoParse == pins = <<>> /\ issuesOut = <<>> /\ done = FALSE
NoChat  == threads = <<>> /\ availableTags = <<>> /\ archPages = HonestPages
\* the cache has been loaded and no file operation is in progress
Loaded == threadCacheLoaded = TRUE /\ pendingIo = <<>>
NoCache == threadCache = EmptyCache /\ threadCacheSaveTimer = FALSE /\ cacheFile = EmptyCache /\ Loaded
NoRepo  == <<Null, Null>>      \* let currentRepo = null
NoFinds == lastFind = NoFind /\ currentRepo = NoRepo
NoTracker == gh = NoIssues /\ lastInstallationId = 0 /\ runs = <<>> /\ inbox = {}

(***************************************************************************)
(* The forum the locator specifications search                             *)
(***************************************************************************)
\* what createSyncEmbed writes for issue n of owner/repo (utils.js 547)
SyncMarker(n, owner, repo) ==
    <<Tok("cur", n, "", ""), Tok("link", 0, owner, repo), Tok("txt", 0, "", ""),
      Tok("url", 0, owner, repo)>>

\* a marker of the first generation: the number only
LegacyMarker(n) == <<Tok("leg", n, "", "")>>

RepoTagApp == Tag(1, "app", REPO_TAG_EMOJI)
BugTag     == Tag(2, "Bug", NoEmoji)

\* thread 1 mirrors acme/app#1, thread 2 carries a legacy marker for issue 2,
\* thread 3 is a conversation nobody synced
BaseThreads(archived) ==
    << Thread(<<"Crash", "!", "startup">>, ForumId, "live", 1 \in archived, <<1, 2>>,
              <<SyncMarker(1, "acme", "app")>>, "ok"),
       Thread(<<"startup">>, ForumId, "live", 2 \in archived, <<>>,
              <<LegacyMarker(2)>>, "ok"),
       Thread(<<"other">>, ForumId, "live", 3 \in archived, <<2>>, <<>>, "ok") >>

\* the (owner, repo, issueTitle) arguments a caller passes: the handlers pass all
\* three, processGitHubIssueRefs passes no title, older callers pass none of them
FindArgs == { <<"acme", "app", <<"crash">> >>, <<"acme", "app", NoTitle>>, <<Null, Null, NoTitle>> }
\* the issues asked for: issue 1 is mirrored by thread 1, issue 2 by thread 2
QueryIssues == {1, 2}

(***************************************************************************)
(* Cache flush (utils.js 357-374)                                          *)
(***************************************************************************)
\* scheduleThreadCacheSave(): arms the timer unless one is pending
scheduleThreadCacheSave(timer) == TRUE

(***************************************************************************)
(* A findThreadsForIssue call                                              *)
(***************************************************************************)
FindThreadsForIssue(issueNumber, owner, repo, issueTitle, fetchFails) ==
    LET cached == IF owner # Null /\ repo # Null
                  THEN getThreadCacheEntry(threadCache, owner, repo, issueNumber)
                  ELSE NoEntry
        gone == cached.threadId # 0 /\ ~InForum(threads[cached.threadId])
        same == lastFind.called /\ lastFind.issueNumber = issueNumber
                /\ lastFind.owner = owner /\ lastFind.repo = repo
    IN
    \E out \in { findThreadsForIssue(threads, availableTags, threadCache, archPages,
                                     issueNumber, owner, repo, issueTitle, fetchFails) } :
    /\ fetchFails => cached.threadId # 0      \* only a request that is made can fail
    /\ threadCache' = out.cache
    /\ threadCacheSaveTimer' = IF out.cacheWritten
                               THEN scheduleThreadCacheSave(threadCacheSaveTimer)
                               ELSE threadCacheSaveTimer
    /\ lastFind' = [called |-> TRUE, issueNumber |-> issueNumber, owner |-> owner,
                    repo |-> repo, issueTitle |-> issueTitle, fetchFails |-> fetchFails,
                    cachedBefore |-> cached.threadId, cachedGone |-> gone,
                    hit |-> out.hit, invalidated |-> out.invalidated,
                    threads |-> out.threads, activeFetches |-> out.activeFetches,
                    archivedFetches |-> out.archivedFetches, pinFetches |-> out.pinFetches,
                    prevSame |-> same,
                    prevStale |-> IF same /\ lastFind.cachedGone THEN lastFind.cachedBefore
                                  ELSE 0]
    /\ UNCHANGED <<parseVars, chatVars, cacheFile, cacheIo, currentRepo, trackerVars>>

Find ==
    \E n \in QueryIssues, a \in FindArgs, ff \in BOOLEAN :
        FindThreadsForIssue(n, a[1], a[2], a[3], ff)

(***************************************************************************)
(* SpecLocator: calls of findThreadsForIssue on a forum whose threads get  *)
(* deleted or moved, starting from any cache file content.                 *)
(***************************************************************************)
\* a moderator deletes a thread
DeleteThread ==
    /\ \E t \in 1..Len(threads) :
          /\ InForum(threads[t])
          /\ threads' = [threads EXCEPT ![t].status = "deleted"]
    /\ UNCHANGED <<parseVars, availableTags, archPages, cacheVars, findVars, trackerVars>>

\* a moderator moves a thread out of the forum
MoveThread ==
    /\ \E t \in 1..Len(threads) :
          /\ threads[t].status = "live"
          /\ threads[t].parentId = ForumId
          /\ threads' = [threads EXCEPT ![t].parentId = Elsewhere]
    /\ UNCHANGED <<parseVars, availableTags, archPages, cacheVars, findVars, trackerVars>>

\* the cache files the process may load: empty, or one entry for an issue of acme/app
LoadedCaches ==
    {EmptyCache} \cup
    { setThreadCacheEntry(EmptyCache, "acme", "app", n, CacheEntry(t, <<"startup">>)) :
        n \in QueryIssues, t \in 1..3 }

InitLocator ==
    /\ NoParse /\ NoFinds /\ NoTracker
    /\ threads = BaseThreads({2})
    /\ availableTags = <<RepoTagApp, BugTag>>
    /\ archPages = HonestPages
    /\ threadCache \in LoadedCaches
    /\ cacheFile = threadCache
    /\ threadCacheSaveTimer = FALSE
    /\ Loaded

NextLocator == Find \/ DeleteThread \/ MoveThread

SpecLocator == InitLocator /\ [][NextLocator]_vars

(***************************************************************************)
(* SpecArchive: one search against every scripted sequence of answers to   *)
(* fetchArchived.                                                          *)
(***************************************************************************)
Pages == { Page(k, h) : k \in {"threads", "empty", "throws"}, h \in BOOLEAN }

InitArchive ==
    /\ NoParse /\ NoFinds /\ NoCache /\ NoTracker
    /\ threads \in { BaseThreads(a) : a \in { {}, {2}, {1, 2} } }
    /\ availableTags = <<RepoTagApp, BugTag>>
    /\ archPages \in SeqsUpTo(Pages, MaxPages)

NextArchive == Find

SpecArchive == InitArchive /\ [][NextArchive]_vars

(***************************************************************************)
(* SpecSearch: calls of findThreadsForIssue on a forum of two threads      *)
(* whose pinned messages are drawn from every kind of marker.              *)
(***************************************************************************)
\* a legacy marker whose message also holds the issue's URL
LegacyMarkerWithUrl(n, owner, repo) == <<Tok("leg", n, "", ""), Tok("url", 0, owner, repo)>>

\* the pinned messages a thread may carry
PinnedChoices ==
    { <<>>,
      <<SyncMarker(1, "acme", "app")>>,
      <<SyncMarker(1, "other", "lib")>>,
      <<SyncMarker(2, "acme", "app")>>,
      <<LegacyMarker(1)>>,
      <<LegacyMarkerWithUrl(1, "acme", "app")>>,
      <<LegacyMarkerWithUrl(1, "other", "lib")>>,
      << <<Tok("txt", 0, "", "")>>, SyncMarker(1, "acme", "app") >> }

\* fetchPinnedWithTimeout(thread): the pins arrive, the 20 s timer wins the race,
\* or thread.messages.fetchPins() rejects (826-835)
PinFetchOutcomes == {"ok", "timeout", "error"}

\* thread 1 is named after something else, thread 2 after the issue's title
SearchThreads ==
    { << Thread(<<"other">>, ForumId, "live", FALSE, t1, p1, f1),
         Thread(<<"Crash">>, ForumId, "live", a2, t2, p2, f2) >> :
        t1 \in { <<>>, <<1>> }, t2 \in { <<>>, <<1>> },
        p1 \in PinnedChoices, p2 \in PinnedChoices,
        f1 \in PinFetchOutcomes, f2 \in PinFetchOutcomes, a2 \in BOOLEAN }

InitSearch ==
    /\ NoParse /\ NoFinds /\ NoCache /\ NoTracker
    /\ threads \in SearchThreads
    /\ availableTags = <<RepoTagApp, BugTag>>
    /\ archPages = HonestPages

NextSearch == Find

SpecSearch == InitSearch /\ [][NextSearch]_vars

(***************************************************************************)
(* SpecParse: getSyncedIssueInfo over every channel with one pinned        *)
(* message of at most MaxMsgLen tokens, and optionally a second pin.       *)
(***************************************************************************)
\* what createSyncEmbed writes for issue n of acme/app, and an old-style marker
SecondPins ==
    { <<Tok("cur", 1, "", ""), Tok("link", 0, "acme", "app"), Tok("url", 0, "acme", "app")>>,
      <<Tok("leg", 2, "", "")>>,
      <<Tok("txt", 0, "", "")>> }

InitParse ==
    /\ pins \in { <<m>> : m \in Messages }
    /\ issuesOut = <<>>
    /\ done = FALSE
    /\ NoChat /\ NoCache /\ NoFinds /\ NoTracker

PinSecondMessage ==
    /\ ~done
    /\ Len(pins) = 1
    /\ \E m \in SecondPins : pins' = Append(pins, m)
    /\ UNCHANGED <<issuesOut, done, chatVars, cacheVars, findVars, trackerVars>>

GetSyncedIssueInfo ==
    /\ ~done
    /\ issuesOut' = getSyncedIssueInfo(pins)
    /\ done' = TRUE
    /\ UNCHANGED <<pins, chatVars, cacheVars, findVars, trackerVars>>

NextParse == PinSecondMessage \/ GetSyncedIssueInfo

SpecParse == InitParse /\ [][NextParse]_vars

(***************************************************************************)
(* One thread-update event on a synced thread                              *)
(***************************************************************************)
MaxUpdTags == 3

SyncTag    == Tag(3, SYNC_LABEL, NoEmoji)
AppNameTag == Tag(4, "App", NoEmoji)
ClosedTag  == Tag(5, CLOSED_TAG_NAME, CLOSED_TAG_EMOJI)
UnknownTagId == 9     \* an applied tag id that forum.availableTags no longer lists
UpdateTags == <<RepoTagApp, BugTag, SyncTag, AppNameTag, ClosedTag>>

RECURSIVE SetToSeq(_)
\* the ids of a set in ascending order
SetToSeq(S) ==
    IF S = {} THEN <<>>
    ELSE LET m == CHOOSE x \in S : \A y \in S : x <= y
         IN  <<m>> \o SetToSeq(S \ {m})

AppliedTagSeqs ==
    { SetToSeq(S) : S \in { T \in SUBSET {1, 2, 3, 4, 5, UnknownTagId} :
                              Cardinality(T) <= MaxUpdTags } }

UpdateWorld(pinned, inst, parent, archived) ==
    [pinned |-> pinned, inst |-> inst, parent |-> parent, archived |-> archived]

UpdateWorlds ==
    { UpdateWorld(<<SyncMarker(1, "acme", "app")>>, 7, ForumId, FALSE),
      UpdateWorld(<<SyncMarker(1, "acme", "app")>>, 7, ForumId, TRUE),
      UpdateWorld(<<LegacyMarker(2)>>, 7, ForumId, FALSE),
      UpdateWorld(<<SyncMarker(2, "other", "lib")>>, 7, ForumId, FALSE),
      UpdateWorld(<<SyncMarker(1, "acme", "app"), SyncMarker(2, "other", "lib")>>,
                  7, ForumId, FALSE),
      UpdateWorld(<<>>, 7, ForumId, FALSE),
      UpdateWorld(<<SyncMarker(1, "acme", "app")>>, 0, ForumId, FALSE),
      UpdateWorld(<<SyncMarker(1, "acme", "app")>>, 7, Elsewhere, FALSE) }

\* the issues carry the sync label; Bug is on them or not
UpdateTrackers ==
    { Tracker([k \in IssueKeys |-> {SYNC_LABEL} \cup extra], [k \in IssueKeys |-> "open"],
              [k \in RepoKeys |-> {SYNC_LABEL} \cup extra], [k \in IssueKeys |-> <<>>])
      : extra \in { {}, {"Bug"} } }

InitUpdate ==
    /\ NoParse /\ NoFinds /\ NoCache
    /\ availableTags = UpdateTags
    /\ archPages = HonestPages
    /\ \E w \in UpdateWorlds, old \in AppliedTagSeqs :
          /\ threads = <<Thread(<<"Crash">>, w.parent, "live", w.archived, old,
                                w.pinned, "ok")>>
          /\ lastInstallationId = w.inst
    /\ gh \in UpdateTrackers
    /\ runs = <<>>
    /\ inbox = {}

\* client.on(Events.ThreadUpdate, handleThreadUpdate): thread t now has the
\* applied tags newTags and the archive flag newArchived
ThreadUpdate(t, newTags, newArchived) ==
    LET oldThread == threads[t]
        newThread == [oldThread EXCEPT !.appliedTags = newTags, !.archived = newArchived]
        res == handleThreadUpdate(gh, availableTags, oldThread, newThread,
                                  lastInstallationId)
    IN  /\ threads' = [threads EXCEPT ![t] = newThread]
        /\ gh' = res.gh
        /\ runs' = Append(runs, [kind |-> "threadUpdate", thread |-> t,
                                 old |-> oldThread, new |-> newThread,
                                 installationId |-> lastInstallationId,
                                 ghBefore |-> gh, calls |-> res.calls, thrown |-> res.thrown])
        /\ UNCHANGED <<parseVars, availableTags, archPages, cacheVars, findVars,
                       lastInstallationId, inbox>>

UpdateOnce ==
    /\ runs = <<>>
    /\ \E newTags \in AppliedTagSeqs, newArchived \in BOOLEAN :
          ThreadUpdate(1, newTags, newArchived)

NextUpdate == UpdateOnce

SpecUpdate == InitUpdate /\ [][NextUpdate]_vars

(***************************************************************************)
(* Webhook events and handler runs                                         *)
(***************************************************************************)
Issue(number, title, labels) == [number |-> number, title |-> title, labels |-> labels]
NoComment == Comment("", <<>>)

\* a webhook payload: installation = 0 when payload.installation is missing
Event(type, owner, repo, installation, issue, comment) ==
    [type |-> type, owner |-> owner, repo |-> repo, installation |-> installation,
     issue |-> issue, comment |-> comment, label |-> ""]

\* a handler run: its event, where it stands, the requests it has made in order
\* (tracker and chat), what the Thread Locator returned to it, the thread it made,
\* the thread it worked on with that thread's applied tags before and after
Run(kind, ev, pc) ==
    [kind |-> kind, ev |-> ev, pc |-> pc, calls |-> <<>>, found |-> <<>>,
     created |-> 0, thrown |-> FALSE, installationId |-> ev.installation,
     thread |-> 0, tagsBefore |-> <<>>, tagsAfter |-> <<>>]

ChatCall(op, thread) == Call(op, "", "", thread, "")

(***************************************************************************)
(* createDiscordThread (payloadProcessor 484-538)                          *)
(***************************************************************************)
\* (issue.labels || []).filter((l) => !isSyncLabel(l.name) && !isClosedTag({name: l.name}))
RECURSIVE TagLabels(_)
TagLabels(labels) ==
    IF labels = <<>> THEN <<>>
    ELSE (IF ~isSyncLabel(Head(labels)) /\ ~isClosedTagName(Head(labels))
          THEN <<Head(labels)>> ELSE <<>>) \o TagLabels(Tail(labels))

TagIdsResult(tags, tagIds) == [tags |-> tags, tagIds |-> tagIds]

RECURSIVE LabelTagIds_NoBreak(_, _, _)
\* A plausible slip: the loop over the labels does not stop at five tags.
LabelTagIds_NoBreak(tags, labels, tagIds) ==
    IF labels = <<>> THEN TagIdsResult(tags, tagIds)
    ELSE LET Push(r) ==
                 LabelTagIds_NoBreak(r.tags, Tail(labels),
                             IF r.tag # NoTag /\ ~SeqContains(tagIds, r.tag.id)
                             THEN Append(tagIds, r.tag.id) ELSE tagIds)
         IN  Push(getOrCreateForumTag(tags, Head(labels), NoEmoji))

RECURSIVE LabelTagIds(_, _, _)
\* for (const label of labels) { if (tagIds.length >= 5) break; ... }
LabelTagIds(tags, labels, tagIds) ==
    IF labels = <<>> \/ Len(tagIds) >= ThreadTagLimit THEN TagIdsResult(tags, tagIds)
    ELSE LET Push(r) ==
                 LabelTagIds(r.tags, Tail(labels),
                             IF r.tag # NoTag /\ ~SeqContains(tagIds, r.tag.id)
                             THEN Append(tagIds, r.tag.id) ELSE tagIds)
         IN  Push(getOrCreateForumTag(tags, Head(labels), NoEmoji))

\* the tags of the new thread: the repository tag first, then the label tags
ThreadTagIds(tags, issue, repoName) ==
    LET LabelTags(repoTag) ==
            LabelTagIds(repoTag.tags, TagLabels(issue.labels),
                        IF repoTag.tag # NoTag THEN <<repoTag.tag.id>> ELSE <<>>)
    IN  LabelTags(getOrCreateForumTag(getOrCreateClosedForumTag(tags).tags, repoName,
                                      REPO_TAG_EMOJI))

\* channel.threads.create({name: issue.title, message: syncMessage, appliedTags})
NewThread(issue, owner, repoName, tagIds) ==
    [Thread(issue.title, ForumId, "live", FALSE, tagIds, <<>>, "ok")
        EXCEPT !.starter = SyncMarker(issue.number, owner, repoName), !.starterBot = TRUE]

(***************************************************************************)
(* processGitHubIssueRefs (utils.js 581-605)                               *)
(***************************************************************************)
\* the numbers of the #n references of a text, in order of first occurrence
RECURSIVE RefNumbers(_, _)
RefNumbers(content, seen) ==
    IF content = <<>> THEN <<>>
    ELSE IF Head(content).k = "ref" /\ Head(content).n \notin seen
         THEN <<Head(content).n>> \o RefNumbers(Tail(content), seen \cup {Head(content).n})
         ELSE RefNumbers(Tail(content), seen)

RefsResult(cache, cacheWritten, issueToThread) ==
    [cache |-> cache, cacheWritten |-> cacheWritten, issueToThread |-> issueToThread]

RECURSIVE ResolveRefs(_, _, _, _, _, _, _)
\* for (const match of matches): findThreadsForIssue(client, forum, n, owner, repo)
ResolveRefs(ths, tags, pages, numbers, owner, repo, acc) ==
    IF numbers = <<>> THEN acc
    ELSE LET Resolved(f) ==
                 ResolveRefs(ths, tags, pages, Tail(numbers), owner, repo,
                     RefsResult(f.cache, acc.cacheWritten \/ f.cacheWritten,
                                IF f.threads # <<>>
                                THEN acc.issueToThread \cup {<<Head(numbers), f.threads[1]>>}
                                ELSE acc.issueToThread))
         IN  Resolved(findThreadsForIssue(ths, tags, acc.cache, pages, Head(numbers),
                                          owner, repo, NoTitle, FALSE))

\* content.replace(issueRefPattern, ...): a reference with a thread becomes a link
ReplaceRefs(content, issueToThread) ==
    [i \in 1..Len(content) |->
        IF content[i].k = "ref" /\ \E p \in issueToThread : p[1] = content[i].n
        THEN Tok("tref", content[i].n, "",
                 ToString((CHOOSE p \in issueToThread : p[1] = content[i].n)[2]))
        ELSE content[i]]

processGitHubIssueRefs(ths, tags, cache, pages, content, owner, repo) ==
    LET Replaced(res) ==
            [body |-> ReplaceRefs(content, res.issueToThread), cache |-> res.cache,
             cacheWritten |-> res.cacheWritten]
    IN  Replaced(ResolveRefs(ths, tags, pages, RefNumbers(content, {}), owner, repo,
                             RefsResult(cache, FALSE, {})))

\* createCommentEmbed(comment, processedBody): what thread.send receives
CommentEmbed(comment, processedBody) ==
    [description |-> IF processedBody # <<>> THEN processedBody ELSE comment.body,
     author |-> comment.login]

(***************************************************************************)
(* handleNewMessage (botServer: utils.js 1189-1304)                        *)
(***************************************************************************)
\* a comment as the tracker keeps it; fromChat: the bridge wrote or extended it
\* from a chat message
TrackerComment(login, body, fromChat) ==
    [login |-> login, body |-> body, fromChat |-> fromChat]

\* a chat message: isStarter when message.id === starterMessage.id
ChatMessage(username, bot, content, isStarter) ==
    [username |-> username, bot |-> bot, content |-> content, isStarter |-> isStarter]

\* [...new Set(syncedIssues.map((i) => i.repo).filter(Boolean))]
RECURSIVE ReposToTag(_, _)
ReposToTag(synced, seen) ==
    IF synced = <<>> THEN <<>>
    ELSE IF Head(synced).repo # Null /\ Head(synced).repo \notin seen
         THEN <<Head(synced).repo>> \o ReposToTag(Tail(synced), seen \cup {Head(synced).repo})
         ELSE ReposToTag(Tail(synced), seen)

ChatState(ths, tags, calls) == [ths |-> ths, tags |-> tags, calls |-> calls]

RECURSIVE BackfillRepoTags(_, _, _)
\* add the repository tag of every synced repository the thread lacks (1213-1225)
BackfillRepoTags(cs, t, repos) ==
    IF repos = <<>> THEN cs
    ELSE LET currentTags == cs.ths[t].appliedTags
             Tagged(r) ==
                 BackfillRepoTags(
                     IF /\ r.tag # NoTag
                        /\ ~SeqContains(currentTags, r.tag.id)
                        /\ Len(currentTags) < ThreadTagLimit
                     THEN ChatState([cs.ths EXCEPT ![t].appliedTags = Append(@, r.tag.id)],
                                    r.tags, cs.calls \o <<ChatCall("setAppliedTags", t)>>)
                     ELSE ChatState(cs.ths, r.tags, cs.calls),
                     t, Tail(repos))
         IN  Tagged(getOrCreateForumTag(cs.tags, Head(repos), REPO_TAG_EMOJI))

\* A plausible slip: the last comment is never looked at, every message becomes a
\* comment of its own.
MirrorToIssue_NeverAppends(st, ref, msg, appLogin) ==
    LET owner == OwnerOf(ref)
        repo == RepoOf(ref)
        key == <<owner, repo, ref.number>>
        getIssue == Call("GET issue", owner, repo, ref.number, "")
    IN  IF st.thrown THEN st
        ELSE IF key \notin DOMAIN st.gh.comments
        THEN Progress(st.gh, st.calls \o <<getIssue>>, TRUE)
        ELSE Progress([st.gh EXCEPT !.comments[key] =
                          Append(@, TrackerComment(appLogin,
                              formatDiscordAuthorComment(msg.username, msg.content), TRUE))],
                      st.calls \o <<getIssue, Call("POST comment", owner, repo, ref.number, "")>>,
                      FALSE)

\* the write for one synced issue: extend the last comment when its attribution
\* names the author of the message, else post a new comment (1227-1296)
MirrorToIssue(st, ref, msg, appLogin) ==
    LET owner == OwnerOf(ref)
        repo == RepoOf(ref)
        key == <<owner, repo, ref.number>>
        getIssue == Call("GET issue", owner, repo, ref.number, "")
        comments == st.gh.comments[key]
        lastComment == comments[Len(comments)]
        getComments == IF comments # <<>>
                       THEN <<Call("GET comments", owner, repo, ref.number, "")>>
                       ELSE <<>>
        append == comments # <<>> /\ extractDiscordUsername(lastComment.body) = msg.username
    IN  IF st.thrown THEN st
        ELSE IF key \notin DOMAIN st.gh.comments
        THEN Progress(st.gh, st.calls \o <<getIssue>>, TRUE)
        ELSE IF append
        THEN Progress([st.gh EXCEPT !.comments[key][Len(comments)] =
                          TrackerComment(lastComment.login,
                              lastComment.body \o <<Tok("nl", 0, "", "")>> \o msg.content,
                              TRUE)],
                      st.calls \o <<getIssue>> \o getComments
                          \o <<Call("PATCH comment", owner, repo, ref.number, "")>>,
                      FALSE)
        ELSE Progress([st.gh EXCEPT !.comments[key] =
                          Append(@, TrackerComment(appLogin,
                              formatDiscordAuthorComment(msg.username, msg.content), TRUE))],
                      st.calls \o <<getIssue>> \o getComments
                          \o <<Call("POST comment", owner, repo, ref.number, "")>>,
                      FALSE)

RECURSIVE MirrorToIssues(_, _, _, _)
MirrorToIssues(st, synced, msg, appLogin) ==
    IF synced = <<>> THEN st
    ELSE MirrorToIssues(MirrorToIssue(st, Head(synced), msg, appLogin),
                        Tail(synced), msg, appLogin)

\* handleNewMessage(message) for a message in thread t; appLogin is the login the
\* tracker shows for comments posted with the installation token
handleNewMessage(g, ths, tags, t, msg, installationId, appLogin) ==
    LET idle == [gh |-> g, ths |-> ths, tags |-> tags, calls |-> <<>>, thrown |-> FALSE]
        Mirrored(chat, st) ==
            [gh |-> st.gh, ths |-> chat.ths, tags |-> chat.tags, calls |-> st.calls,
             thrown |-> st.thrown]
        Backfilled(synced, chat) ==
            Mirrored(chat, MirrorToIssues(Progress(g, chat.calls, FALSE), synced, msg, appLogin))
        Synced(synced) ==
            IF ths[t].parentId # ForumId \/ msg.isStarter \/ msg.bot \/ synced = <<>>
            THEN idle
            ELSE IF installationId = 0 THEN [idle EXCEPT !.thrown = TRUE]
            ELSE Backfilled(synced, BackfillRepoTags(ChatState(ths, tags, <<>>), t,
                                                     ReposToTag(synced, {})))
    IN  Synced(getSyncedIssueInfo(ths[t].pinned))

(***************************************************************************)
(* The bridge at work: webhook deliveries handled step by step, each step  *)
(* one awaited request, and chat messages handled in one piece.            *)
(***************************************************************************)
MaxRuns == 2      \* handler runs (webhook deliveries, chat messages) per behaviour

InstallationId == 7
\* the logins the tracker may show for the installation's own comments
AppLogins == { BridgeLogin, "bridge[bot]" }

Text == <<Tok("txt", 0, "", "")>>

\* thread 1 mirrors acme/app#2
SyncedThread ==
    [Thread(<<"startup">>, ForumId, "live", FALSE, <<1>>,
            <<SyncMarker(2, "acme", "app")>>, "ok")
        EXCEPT !.starter = SyncMarker(2, "acme", "app"), !.starterBot = TRUE]

\* acme/app#2 is synced and has one comment mirrored from alice's chat message
InitTracker ==
    Tracker([k \in IssueKeys |-> IF k = <<"acme", "app", 2>> THEN {SYNC_LABEL} ELSE {}],
            [k \in IssueKeys |-> "open"],
            [k \in RepoKeys |-> IF k = <<"acme", "app">> THEN {SYNC_LABEL} ELSE {}],
            [k \in IssueKeys |->
                IF k = <<"acme", "app", 2>>
                THEN <<TrackerComment("bridge[bot]",
                                      formatDiscordAuthorComment("alice", Text), TRUE)>>
                ELSE <<>>])

TitleOf(number) == IF number = 1 THEN <<"Crash">> ELSE <<"startup">>

OpenedEvent(installation, labels) ==
    Event("issues.opened", "acme", "app", installation, Issue(1, TitleOf(1), labels),
          NoComment)

CommentEvent(number, labels, login, body) ==
    Event("issue_comment.created", "acme", "app", InstallationId,
          Issue(number, TitleOf(number), labels), Comment(login, body))

OpenedEvents ==
    { OpenedEvent(InstallationId, <<>>), OpenedEvent(InstallationId, <<"Bug">>),
      OpenedEvent(InstallationId, <<SYNC_LABEL>>), OpenedEvent(0, <<>>) }

CommentEvents ==
    { CommentEvent(2, <<SYNC_LABEL>>, "carol", Text),
      CommentEvent(2, <<SYNC_LABEL>>, "carol",
                   <<Tok("ref", 2, "", ""), Tok("ref", 1, "", "")>>),
      CommentEvent(1, <<SYNC_LABEL>>, "carol", Text),
      CommentEvent(1, <<>>, "carol", Text),
      CommentEvent(2, <<SYNC_LABEL>>, BridgeLogin, Text),
      CommentEvent(2, <<SYNC_LABEL>>, "carol", <<Tok("mark", 0, "", "")>>),
      CommentEvent(2, <<SYNC_LABEL>>, "bridge[bot]",
                   formatDiscordAuthorComment("alice", Text)) }

\* what the tracker has to deliver at the start: one event, or the opening of
\* issue 1 together with a comment
Scenarios ==
    { {e} : e \in OpenedEvents \cup CommentEvents }
    \cup { {OpenedEvent(InstallationId, <<>>), c} : c \in CommentEvents }

ChatMessages ==
    { ChatMessage("alice", FALSE, Text, FALSE), ChatMessage("bob", FALSE, Text, FALSE),
      ChatMessage("bridge", TRUE, Text, FALSE), ChatMessage("bob", FALSE, Text, TRUE) }

Init ==
    /\ NoParse /\ NoFinds /\ NoCache
    /\ threads = <<SyncedThread>>
    /\ availableTags = <<RepoTagApp>>
    /\ archPages = HonestPages
    /\ gh = InitTracker
    /\ lastInstallationId \in {0, InstallationId}
    /\ runs = <<>>
    /\ inbox \in Scenarios

\* A plausible slip: the issue-opened handler does not look at the labels.
FirstStep_NoGuard(e) ==
    IF e.installation = 0 THEN "done"
    ELSE IF e.type = "issues.opened" THEN "label"
    ELSE IF isIgnoredComment(e.comment) THEN "done"
    ELSE IF ~hasSyncLabel(e.issue) THEN "label" ELSE "find"

\* where a delivery stands after wrapHandler and the handler's guards
\* (handleIssueOpened 670-696, handleIssueComment 556-584)
\* A plausible slip: the handlers go on without an installation.
FirstStep_AnyInstallation(e) ==
    IF e.type = "issues.opened"
    THEN (IF hasSyncLabel(e.issue) THEN "done" ELSE "label")
    ELSE IF isIgnoredComment(e.comment) THEN "done"
    ELSE IF ~hasSyncLabel(e.issue) THEN "label" ELSE "find"

FirstStep(e) ==
    IF e.installation = 0 THEN "done"
    ELSE IF e.type = "issues.opened"
         THEN (IF hasSyncLabel(e.issue) THEN "done" ELSE "label")
         ELSE IF isIgnoredComment(e.comment) THEN "done"
         ELSE IF ~hasSyncLabel(e.issue) THEN "label" ELSE "find"

\* the tracker delivers event e: wrapHandler remembers the installation id and
\* the handler runs up to its first request
Deliver(e) ==
    /\ e \in inbox
    /\ Len(runs) < MaxRuns
    /\ lastInstallationId' = IF e.installation # 0 THEN e.installation
                             ELSE lastInstallationId
    /\ runs' = Append(runs, Run(e.type, e, FirstStep(e)))
    /\ UNCHANGED <<parseVars, chatVars, cacheVars, findVars, gh, inbox>>

\* POST .../issues/{issue_number}/labels {labels: [SYNC_LABEL]}
AddSyncLabel(i) ==
    LET r == runs[i]
        st == AddIssueLabel(Progress(gh, r.calls, FALSE), r.ev.owner, r.ev.repo,
                            r.ev.issue.number, SYNC_LABEL)
    IN  /\ r.pc = "label"
        /\ gh' = st.gh
        /\ runs' = [runs EXCEPT ![i].calls = st.calls, ![i].pc = "create"]
        /\ UNCHANGED <<parseVars, chatVars, cacheVars, findVars, lastInstallationId, inbox>>

\* createDiscordThread up to channel.threads.create
CreateThread(i) ==
    LET r == runs[i]
        id == Len(threads) + 1
    IN  /\ r.pc = "create"
        /\ \E t \in { ThreadTagIds(availableTags, r.ev.issue, r.ev.repo) } :
            /\ availableTags' = t.tags
            /\ threads' = Append(threads, NewThread(r.ev.issue, r.ev.owner, r.ev.repo, t.tagIds))
            /\ runs' = [runs EXCEPT ![i].calls = Append(@, ChatCall("create thread", id)),
                                    ![i].created = id, ![i].pc = "pin"]
            /\ UNCHANGED <<parseVars, archPages, cacheVars, findVars, gh, lastInstallationId,
                           inbox>>

\* starterMessage.pin(); setThreadCacheEntry(owner, repoName, issue.number, ...)
PinStarter(i) ==
    LET r == runs[i]
        id == r.created
    IN  /\ r.pc = "pin"
        /\ threads' = [threads EXCEPT ![id].pinned = <<threads[id].starter>>]
        /\ threadCache' = setThreadCacheEntry(threadCache, r.ev.owner, r.ev.repo,
                              r.ev.issue.number, CacheEntry(id, r.ev.issue.title))
        /\ threadCacheSaveTimer' = scheduleThreadCacheSave(threadCacheSaveTimer)
        /\ runs' = [runs EXCEPT ![i].calls = Append(@, ChatCall("pin", id)),
                                ![i].pc = IF r.kind = "issues.opened" THEN "done"
                                          ELSE "find"]
        /\ UNCHANGED <<parseVars, availableTags, archPages, cacheFile, cacheIo, findVars, gh,
                       lastInstallationId, inbox>>

\* findThreadsForIssue(client, forum, issue.number, owner, repo, issue.title)
LocateThreads(i) ==
    LET r == runs[i]
    IN  /\ r.pc = "find"
        /\ \E f \in { findThreadsForIssue(threads, availableTags, threadCache, archPages,
                                          r.ev.issue.number, r.ev.owner, r.ev.repo,
                                          r.ev.issue.title, FALSE) } :
            /\ threadCache' = f.cache
            /\ threadCacheSaveTimer' = IF f.cacheWritten
                                       THEN scheduleThreadCacheSave(threadCacheSaveTimer)
                                       ELSE threadCacheSaveTimer
            /\ runs' = [runs EXCEPT ![i].found = f.threads,
                                    ![i].pc = IF f.threads = <<>> THEN "done" ELSE "send"]
            /\ UNCHANGED <<parseVars, chatVars, cacheFile, cacheIo, findVars, gh, lastInstallationId,
                           inbox>>

\* A plausible slip: only the first located thread gets the message... and gets
\* it once more for every further thread.
SendToThreads_Twice(ths, found, message) ==
    IF found = <<>> THEN ths
    ELSE [ths EXCEPT ![Head(found)].sent = @ \o <<message, message>>]

RECURSIVE SendToThreads(_, _, _)
\* for (const thread of threads) await thread.send(...)
SendToThreads(ths, found, message) ==
    IF found = <<>> THEN ths
    ELSE SendToThreads([ths EXCEPT ![Head(found)].sent = Append(@, message)],
                       Tail(found), message)

\* processGitHubIssueRefs, then one message to every located thread
SendComment(i) ==
    LET r == runs[i]
    IN  /\ r.pc = "send"
        /\ \E p \in { processGitHubIssueRefs(threads, availableTags, threadCache, archPages,
                                             r.ev.comment.body, r.ev.owner, r.ev.repo) } :
            /\ threadCache' = p.cache
            /\ threadCacheSaveTimer' = IF p.cacheWritten
                                       THEN scheduleThreadCacheSave(threadCacheSaveTimer)
                                       ELSE threadCacheSaveTimer
            /\ threads' = SendToThreads(threads, r.found, CommentEmbed(r.ev.comment, p.body))
            /\ runs' = [runs EXCEPT
                          ![i].calls = @ \o [j \in 1..Len(r.found) |-> ChatCall("send", r.found[j])],
                          ![i].pc = "done"]
            /\ UNCHANGED <<parseVars, availableTags, archPages, cacheFile, cacheIo, findVars, gh,
                           lastInstallationId, inbox>>

\* the "created" events of the comments the tracker has that it had not before
NewCommentEvents(before, after) ==
    { CommentEvent(k[3], IF SYNC_LABEL \in after.labels[k] THEN <<SYNC_LABEL>> ELSE <<>>,
                   after.comments[k][Len(after.comments[k])].login,
                   after.comments[k][Len(after.comments[k])].body)
      : k \in { x \in DOMAIN before.comments : x[1] = "acme" /\ x[2] = "app"
                                  /\ Len(after.comments[x]) > Len(before.comments[x]) } }

\* client.on(Events.MessageCreate, handleNewMessage): somebody writes in thread t
NewMessage(t, msg, appLogin) ==
    /\ Len(runs) < MaxRuns
    /\ \E out \in { handleNewMessage(gh, threads, availableTags, t, msg,
                                      lastInstallationId, appLogin) } :
        /\ gh' = out.gh
        /\ threads' = out.ths
        /\ availableTags' = out.tags
        /\ inbox' = inbox \cup NewCommentEvents(gh, out.gh)
        /\ runs' = Append(runs, [Run("message", Event("message", "", "", lastInstallationId,
                                                       Issue(t, <<>>, <<>>),
                                                       Comment(msg.username, msg.content)),
                                     "done")
                                 EXCEPT !.calls = out.calls, !.thrown = out.thrown,
                                        !.thread = t,
                                        !.tagsBefore = threads[t].appliedTags,
                                        !.tagsAfter = out.ths[t].appliedTags])
        /\ UNCHANGED <<parseVars, archPages, cacheVars, findVars, lastInstallationId>>

Step(i) ==
    \/ AddSyncLabel(i)
    \/ CreateThread(i)
    \/ PinStarter(i)
    \/ LocateThreads(i)
    \/ SendComment(i)

Next ==
    \/ \E e \in inbox : Deliver(e)
    \/ \E i \in 1..Len(runs) : Step(i)

Spec == Init /\ [][Next]_vars

(***************************************************************************)
(* SpecChat: people write in synced threads while the tracker delivers the *)
(* comment events, those of the bridge's own comments included.            *)
(***************************************************************************)
InitChat ==
    /\ NoParse /\ NoFinds /\ NoCache
    /\ threads = <<SyncedThread>>
    /\ availableTags = <<RepoTagApp>>
    /\ archPages = HonestPages
    /\ gh = InitTracker
    /\ lastInstallationId \in {0, InstallationId}
    /\ runs = <<>>
    /\ inbox \in { {CommentEvent(2, <<SYNC_LABEL>>, "carol", Text)},
                   {CommentEvent(1, <<>>, "carol", Text)},
                   {CommentEvent(2, <<SYNC_LABEL>>, BridgeLogin, Text)} }

Write ==
    \E t \in 1..Len(threads), msg \in ChatMessages, appLogin \in AppLogins :
        NewMessage(t, msg, appLogin)

NextChat == Next \/ Write

SpecChat == InitChat /\ [][NextChat]_vars

(***************************************************************************)
(* handleIssueLabeled (payloadProcessor 892-950) and handleIssueClosed     *)
(* (payloadProcessor 716-780), each in one piece                           *)
(***************************************************************************)
Outcome(ths, tags, cache, cacheWritten, calls, found) ==
    [ths |-> ths, tags |-> tags, cache |-> cache, cacheWritten |-> cacheWritten,
     calls |-> calls, found |-> found]

RECURSIVE AddTagToThreads(_, _, _)
\* for (const thread of threads): skip a thread that holds 5 tags, else add the tag
AddTagToThreads(cs, found, tagId) ==
    IF found = <<>> THEN cs
    ELSE LET t == Head(found)
             currentTags == cs.ths[t].appliedTags
         IN  AddTagToThreads(
                 IF SeqContains(currentTags, tagId) \/ Len(currentTags) >= ThreadTagLimit
                 THEN cs
                 ELSE ChatState([cs.ths EXCEPT ![t].appliedTags = Append(@, tagId)],
                                cs.tags, cs.calls \o <<ChatCall("setAppliedTags", t)>>),
                 Tail(found), tagId)

\* A plausible slip: the forum tag is obtained before the threads are looked at.
handleIssueLabeled_TagFirst(ths, tags, cache, pages, e) ==
    LET r == getOrCreateForumTag(tags, e.label, NoEmoji)
        Located(f) ==
            IF r.tag = NoTag \/ f.threads = <<>>
            THEN Outcome(ths, r.tags, f.cache, f.cacheWritten, <<>>, f.threads)
            ELSE LET cs == AddTagToThreads(ChatState(ths, r.tags, <<>>), f.threads, r.tag.id)
                 IN  Outcome(cs.ths, cs.tags, f.cache, f.cacheWritten, cs.calls, f.threads)
    IN  IF isSyncLabel(e.label) \/ e.label = e.repo \/ isClosedTagName(e.label)
        THEN Outcome(ths, tags, cache, FALSE, <<>>, <<>>)
        ELSE Located(findThreadsForIssue(ths, tags, cache, pages, e.issue.number, e.owner,
                                         e.repo, e.issue.title, FALSE))

handleIssueLabeled(ths, tags, cache, pages, e) ==
    LET Added(f, r, cs) ==
            Outcome(cs.ths, cs.tags, f.cache, f.cacheWritten, cs.calls, f.threads)
        Tagged(f, r) ==
            IF r.tag = NoTag
            THEN Outcome(ths, r.tags, f.cache, f.cacheWritten, <<>>, f.threads)
            ELSE Added(f, r, AddTagToThreads(ChatState(ths, r.tags, <<>>), f.threads, r.tag.id))
        Located(f) ==
            IF f.threads = <<>>
            THEN Outcome(ths, tags, f.cache, f.cacheWritten, <<>>, <<>>)
            ELSE Tagged(f, getOrCreateForumTag(tags, e.label, NoEmoji))
    IN  IF isSyncLabel(e.label) \/ e.label = e.repo \/ isClosedTagName(e.label)
        THEN Outcome(ths, tags, cache, FALSE, <<>>, <<>>)
        ELSE Located(findThreadsForIssue(ths, tags, cache, pages, e.issue.number, e.owner,
                                         e.repo, e.issue.title, FALSE))

\* createIssueStatusEmbed(issue, "closed", actor)
CloseEmbed == [description |-> <<Tok("txt", 0, "", "")>>, author |-> "Issue closed"]

RECURSIVE CloseThreads(_, _, _)
\* for (const thread of threads): the notice, then the closed tag unless the
\* thread has it or holds 5 tags
CloseThreads(cs, found, closedTag) ==
    IF found = <<>> THEN cs
    ELSE LET t == Head(found)
             noticed == ChatState([cs.ths EXCEPT ![t].sent = Append(@, CloseEmbed)],
                                  cs.tags, cs.calls \o <<ChatCall("send", t)>>)
         IN  CloseThreads(
                 IF closedTag = NoTag THEN noticed
                 ELSE AddTagToThreads(noticed, <<t>>, closedTag.id),
                 Tail(found), closedTag)

handleIssueClosed(ths, tags, cache, pages, e) ==
    LET Noticed(f, cs) ==
            Outcome(cs.ths, cs.tags, f.cache, f.cacheWritten, cs.calls, f.threads)
        Tagged(f, c) ==
            Noticed(f, CloseThreads(ChatState(ths, c.tags, <<>>), f.threads, c.tag))
        Located(f) == Tagged(f, getOrCreateClosedForumTag(tags))
    IN  Located(findThreadsForIssue(ths, tags, cache, pages, e.issue.number, e.owner,
                                    e.repo, e.issue.title, FALSE))

(***************************************************************************)
(* handleNewThread (botServer: utils.js 1423-1546)                         *)
(***************************************************************************)
\* the repositories of the installation (getInstallationRepoMap)
InstallationRepos == RepoKeys

\* getInstallationRepoMap(octokit, installationId) (1068-1104): the repositories by
\* name, or an empty map when there is no installation id or the listing throws
getInstallationRepoMap(installationId, listing) ==
    IF installationId = 0 \/ listing = "error" THEN {} ELSE InstallationRepos

RECURSIVE resolveRepoFromTags(_, _, _)
\* the first applied repository-selector tag that names a repository of the
\* installation; <<>> when there is none
resolveRepoFromTags(appliedTags, tags, repoMap) ==
    IF appliedTags = <<>> THEN <<>>
    ELSE LET tag == TagById(tags, Head(appliedTags))
             named == { p \in repoMap : Lower(p[2]) = Lower(tag.name) }
         IN  IF tag # NoTag /\ isRepoSelectorTag(tag) /\ named # {}
             THEN CHOOSE p \in named : TRUE
             ELSE resolveRepoFromTags(Tail(appliedTags), tags, repoMap)

RECURSIVE TagNames_WithRepoName(_, _, _, _)
\* A plausible slip: a plain tag that repeats the repository's name is not left out.
TagNames_WithRepoName(appliedTags, tags, repoName, seen) ==
    IF appliedTags = <<>> THEN <<>>
    ELSE LET tag == TagById(tags, Head(appliedTags))
             keep == /\ tag # NoTag
                     /\ ~isRepoSelectorTag(tag)
                     /\ ~isSyncLabel(tag.name)
                     /\ tag.name \notin seen
         IN  (IF keep THEN <<tag.name>> ELSE <<>>)
             \o TagNames_WithRepoName(Tail(appliedTags), tags, repoName,
                                      IF keep THEN seen \cup {tag.name} ELSE seen)

RECURSIVE TagNames(_, _, _, _)
\* the names of the applied tags that become labels: no repository selector, no
\* sync label, not the repository's name; each name once
TagNames(appliedTags, tags, repoName, seen) ==
    IF appliedTags = <<>> THEN <<>>
    ELSE LET tag == TagById(tags, Head(appliedTags))
             keep == /\ tag # NoTag
                     /\ ~isRepoSelectorTag(tag)
                     /\ ~isSyncLabel(tag.name)
                     /\ Lower(tag.name) # Lower(repoName)
                     /\ tag.name \notin seen
         IN  (IF keep THEN <<tag.name>> ELSE <<>>)
             \o TagNames(Tail(appliedTags), tags, repoName,
                         IF keep THEN seen \cup {tag.name} ELSE seen)

RECURSIVE EnsureLabels(_, _, _, _)
EnsureLabels(st, owner, repo, names) ==
    IF names = <<>> THEN st
    ELSE EnsureLabels(getOrCreateGitHubLabel(st, owner, repo, Head(names)),
                      owner, repo, Tail(names))

\* the number the tracker gives the next issue of a repository
NextIssueNumber(g, owner, repo) ==
    1 + (CHOOSE m \in {0} \cup { k[3] : k \in DOMAIN g.labels } :
            \A k \in DOMAIN g.labels : (k[1] = owner /\ k[2] = repo) => k[3] <= m)

WithKey(f, key, value) == [k \in DOMAIN f \cup {key} |-> IF k = key THEN value ELSE f[k]]

\* POST /repos/{owner}/{repo}/issues {title, body, labels}
CreateIssue(st, owner, repo, title, body, labels) ==
    LET number == NextIssueNumber(st.gh, owner, repo)
        key == <<owner, repo, number>>
    IN  Progress([st.gh EXCEPT !.labels = WithKey(@, key, SeqToSet(labels)),
                               !.state = WithKey(@, key, "open"),
                               !.comments = WithKey(@, key, <<>>),
                               !.created = Append(@, [owner |-> owner, repo |-> repo,
                                                      number |-> number, title |-> title,
                                                      body |-> body, labels |-> labels])],
                 st.calls \o <<Call("POST issue", owner, repo, number, "")>>, FALSE)

\* [repoTag.id, ...appliedTags].slice(0, 5)
FirstFive(q) == SubSeq(q, 1, IF Len(q) < ThreadTagLimit THEN Len(q) ELSE ThreadTagLimit)

\* handleNewThread(thread) for thread t
handleNewThread(g, ths, tags, t, installationId, listing) ==
    LET th == ths[t]
        idle == [gh |-> g, ths |-> ths, tags |-> tags, calls |-> <<>>, thrown |-> FALSE]
        Synced(issued, r, retag, syncMessage) ==
            [gh |-> issued.gh,
             ths |-> [ths EXCEPT ![t] =
                        [th EXCEPT
                           !.appliedTags = IF retag THEN FirstFive(<<r.tag.id>> \o @) ELSE @,
                           !.sent = Append(@, [description |-> syncMessage,
                                               author |-> "bridge"]),
                           !.pinned = <<syncMessage>> \o @]],
             tags |-> r.tags,
             calls |-> issued.calls
                       \o (IF retag THEN <<ChatCall("setAppliedTags", t)>> ELSE <<>>)
                       \o <<ChatCall("send", t), ChatCall("pin", t)>>,
             thrown |-> FALSE]
        Issued(repoOwner, repoName, issued, r) ==
            Synced(issued, r, r.tag # NoTag /\ ~SeqContains(th.appliedTags, r.tag.id),
                   SyncMarker(issued.gh.created[Len(issued.gh.created)].number,
                              repoOwner, repoName))
        Labelled(repoOwner, repoName, uniqueTagNames) ==
            Issued(repoOwner, repoName,
                   CreateIssue(EnsureLabels(Progress(g, <<>>, FALSE), repoOwner, repoName,
                                            <<SYNC_LABEL>> \o uniqueTagNames),
                               repoOwner, repoName, th.name,
                               formatDiscordAuthorComment("author", th.starter),
                               <<SYNC_LABEL>> \o uniqueTagNames),
                   getOrCreateForumTag(tags, repoName, REPO_TAG_EMOJI))
        Resolved(repoOwner, repoName) ==
            Labelled(repoOwner, repoName, TagNames(th.appliedTags, tags, repoName, {}))
        Target(repoFromTag) ==
            Resolved(IF repoFromTag # <<>> THEN repoFromTag[1] ELSE DefaultRepo[1],
                     IF repoFromTag # <<>> THEN repoFromTag[2] ELSE DefaultRepo[2])
    IN  IF th.starterBot \/ th.parentId # ForumId
           \/ (th.starter # <<>> /\ Head(th.starter).k \in {"cur", "leg"})
        THEN idle
        ELSE IF installationId = 0 THEN [idle EXCEPT !.thrown = TRUE]
        ELSE Target(resolveRepoFromTags(th.appliedTags, tags,
                                        getInstallationRepoMap(installationId, listing)))

(***************************************************************************)
(* SpecTags: the handlers that add a tag to a thread, on a thread that     *)
(* holds few tags or many                                                  *)
(***************************************************************************)
ForumTags ==
    <<RepoTagApp, BugTag, Tag(3, "ui", NoEmoji), Tag(4, "docs", NoEmoji),
      Tag(5, "perf", NoEmoji), Tag(6, "api", NoEmoji), Tag(7, "lib", REPO_TAG_EMOJI)>>

AppliedChoices ==
    { <<1, 2>>, <<1, 2, 3, 4>>, <<2, 3, 4, 5>>, <<1, 2, 3, 4, 5>>, <<2, 3, 4, 5, 6>>,
      <<7, 2, 3, 4, 5>> }

\* a thread the bridge made for acme/app#1
MirrorThread(appliedTags) ==
    [Thread(<<"Crash">>, ForumId, "live", FALSE, appliedTags,
            <<SyncMarker(1, "acme", "app")>>, "ok")
        EXCEPT !.starter = SyncMarker(1, "acme", "app"), !.starterBot = TRUE]

\* a thread somebody has just opened in the forum
HumanThread(appliedTags) ==
    [Thread(<<"Crash">>, ForumId, "live", FALSE, appliedTags, <<>>, "ok")
        EXCEPT !.starter = Text]

LabeledEvent(name) ==
    [Event("issues.labeled", "acme", "app", InstallationId,
           Issue(1, TitleOf(1), <<SYNC_LABEL, name>>), NoComment) EXCEPT !.label = name]

ClosedEvent ==
    Event("issues.closed", "acme", "app", InstallationId,
          Issue(1, TitleOf(1), <<SYNC_LABEL>>), NoComment)

LabelNames == { "api", "Bug", "new", SYNC_LABEL, "app", CLOSED_TAG_NAME }

InitTags ==
    /\ NoParse /\ NoFinds /\ NoCache
    /\ \E a \in AppliedChoices : threads \in { <<MirrorThread(a)>>, <<HumanThread(a)>> }
    /\ availableTags = ForumTags
    /\ archPages = HonestPages
    /\ gh = [InitTracker EXCEPT !.labels[<<"acme", "app", 1>>] = {SYNC_LABEL}]
    /\ lastInstallationId = InstallationId
    /\ runs = <<>>
    /\ inbox = {}

\* the run of a handler that did all its work in one piece
FinishedRun(kind, e, out, t, before, after) ==
    [Run(kind, e, "done") EXCEPT !.calls = out.calls, !.found = out.found, !.thread = t,
                                 !.tagsBefore = before, !.tagsAfter = after]

\* webhooks.on("issues.labeled" | "issues.closed", ...): the whole handler
TagEvent(e) ==
    /\ Len(runs) < MaxRuns
    /\ \E out \in { IF e.type = "issues.labeled"
                    THEN handleIssueLabeled(threads, availableTags, threadCache, archPages, e)
                    ELSE handleIssueClosed(threads, availableTags, threadCache, archPages, e) } :
       \E t \in { IF out.found = <<>> THEN 0 ELSE out.found[1] } :
        /\ threads' = out.ths
        /\ availableTags' = out.tags
        /\ threadCache' = out.cache
        /\ threadCacheSaveTimer' = IF out.cacheWritten
                                   THEN scheduleThreadCacheSave(threadCacheSaveTimer)
                                   ELSE threadCacheSaveTimer
        /\ lastInstallationId' = e.installation
        /\ runs' = Append(runs,
                      FinishedRun(e.type, e, out, t,
                                  IF t = 0 THEN <<>> ELSE threads[t].appliedTags,
                                  IF t = 0 THEN <<>> ELSE out.ths[t].appliedTags))
        /\ UNCHANGED <<parseVars, archPages, cacheFile, cacheIo, findVars, gh, inbox>>

Labeled == \E name \in LabelNames : TagEvent(LabeledEvent(name))

Closed == TagEvent(ClosedEvent)

\* client.on(Events.ThreadCreate, handleNewThread) for thread t
ThreadCreated(t) ==
    /\ Len(runs) < MaxRuns
    /\ \E out \in { handleNewThread(gh, threads, availableTags, t, lastInstallationId,
                                     listing) : listing \in {"ok", "error"} } :
        /\ gh' = out.gh
        /\ threads' = out.ths
        /\ availableTags' = out.tags
        /\ inbox' = inbox \cup { Event("issues.opened", i.owner, i.repo, lastInstallationId,
                                       Issue(i.number, i.title, i.labels), NoComment)
                                 : i \in SeqToSet(out.gh.created) \ SeqToSet(gh.created) }
        /\ runs' = Append(runs,
                      [Run("thread", Event("thread", "", "", lastInstallationId,
                                           Issue(t, threads[t].name, <<>>), NoComment),
                           "done")
                       EXCEPT !.calls = out.calls, !.thrown = out.thrown, !.thread = t,
                              !.tagsBefore = threads[t].appliedTags,
                              !.tagsAfter = out.ths[t].appliedTags])
        /\ UNCHANGED <<parseVars, archPages, cacheVars, findVars, lastInstallationId>>

Opened == \E t \in 1..Len(threads) : ThreadCreated(t)

NextTags == Labeled \/ Closed \/ Opened \/ Write

SpecTags == InitTags /\ [][NextTags]_vars

(***************************************************************************)
(* C7: on a thread-update event for a thread synced with exactly one      *)
(* issue, the handler makes exactly one label-removal call per removed    *)
(* tag and one label-add call per added tag that is not structural, none  *)
(* for a sync-marker tag, a repository-selector tag or a tag named like   *)
(* the synced repository, and no label call at all when the old and new   *)
(* applied-tag sets are equal; a 404 on a removal does not stop the run.  *)
(***************************************************************************)
LabelOps == {"GET label", "POST label", "POST issue label", "DELETE issue label"}

CallCount(r, op, name) ==
    Cardinality({ i \in 1..Len(r.calls) : r.calls[i].op = op /\ r.calls[i].name = name })

OneIssueUpdate(r) ==
    /\ r.kind = "threadUpdate"
    /\ r.new.parentId = ForumId
    /\ r.installationId # 0
    /\ Len(getSyncedIssueInfo(r.new.pinned)) = 1

Structural(tag, ref) ==
    \/ tag.name = SYNC_LABEL
    \/ getTagEmojiName(tag) = REPO_TAG_EMOJI
    \/ Lower(tag.name) = Lower(RepoOf(ref))

C7_LabelCallsPerTag ==
    \A i \in 1..Len(runs) :
        LET r == runs[i]
            ref == getSyncedIssueInfo(r.new.pinned)[1]
            old == SeqToSet(r.old.appliedTags)
            new == SeqToSet(r.new.appliedTags)
        IN  OneIssueUpdate(r) =>
              /\ ~r.thrown
              /\ old = new => \A j \in 1..Len(r.calls) : r.calls[j].op \notin LabelOps
              /\ \A j \in 1..Len(availableTags) :
                    LET tag == availableTags[j] IN
                    /\ CallCount(r, "DELETE issue label", tag.name) =
                          IF tag.id \in old \ new /\ ~Structural(tag, ref) THEN 1 ELSE 0
                    /\ CallCount(r, "POST issue label", tag.name) =
                          IF tag.id \in new \ old /\ ~Structural(tag, ref) THEN 1 ELSE 0
              /\ \A j \in 1..Len(r.calls) :
                    r.calls[j].op \in LabelOps =>
                       /\ r.calls[j].owner = OwnerOf(ref) /\ r.calls[j].repo = RepoOf(ref)
                       /\ r.calls[j].number \in {0, ref.number}
                       /\ \E k \in 1..Len(availableTags) :
                             availableTags[k].name = r.calls[j].name

\* {repoTag, bug} -> {repoTag} on an issue that does not carry the label: the one
\* request is the removal of Bug, answered 404
C7_Witness ==
    \E i \in 1..Len(runs) :
        /\ OneIssueUpdate(runs[i])
        /\ runs[i].old.appliedTags = <<1, 2>>
        /\ runs[i].new.appliedTags = <<1>>
        /\ runs[i].old.archived = runs[i].new.archived
        /\ runs[i].calls = <<Call("DELETE issue label", "acme", "app", 1, "Bug")>>
        /\ "Bug" \notin runs[i].ghBefore.labels[<<"acme", "app", 1>>]

(***************************************************************************)
(* C10                                                                     *)
(***************************************************************************)
SameLine(m, i, j) == \A x \in (i + 1)..(j - 1) : m[x].k # "nl"

\* positions (i, j) of a capitalised marker and an inline link after it on its line
CurrentPairs(m) ==
    { p \in (1..Len(m)) \X (1..Len(m)) :
        /\ p[1] < p[2]
        /\ m[p[1]].k = "cur"
        /\ m[p[2]].k = "link"
        /\ SameLine(m, p[1], p[2]) }

MarkerPositions(m) == { i \in 1..Len(m) : m[i].k \in {"cur", "leg"} }
UrlPositions(m)    == { i \in 1..Len(m) : m[i].k = "url" }

Least(S)    == CHOOSE x \in S : \A y \in S : x <= y
Greatest(S) == CHOOSE x \in S : \A y \in S : y <= x

\* the entry the Identity Resolver is to give for one message, stated on the text
ExpectedEntries(m) ==
    IF CurrentPairs(m) # {}
    THEN LET i == Least({ p[1] : p \in CurrentPairs(m) })
             j == Greatest({ p[2] : p \in { q \in CurrentPairs(m) : q[1] = i } })
         IN  <<IssueRef(m[i].n, m[j].o, m[j].r)>>
    ELSE IF MarkerPositions(m) # {}
    THEN LET i == Least(MarkerPositions(m)) IN
         IF UrlPositions(m) # {}
         THEN LET u == Least(UrlPositions(m)) IN <<IssueRef(m[i].n, m[u].o, m[u].r)>>
         ELSE <<IssueRef(m[i].n, Null, Null)>>
    ELSE <<>>

\* C10: per pinned message, getSyncedIssueInfo returns {N, owner, repo} from the
\* inline link for a current-format marker (tried first); otherwise, for a legacy
\* marker, {N, owner, repo} from a tracker issue URL of the same message or
\* {N, null, null} without one; nothing for non-marker text; owner and repo are
\* both present or both null.
C10_IdentityResolver ==
    done =>
        /\ issuesOut = (IF Len(pins) = 1 THEN ExpectedEntries(pins[1])
                        ELSE ExpectedEntries(pins[1]) \o ExpectedEntries(pins[2]))
        /\ \A k \in 1..Len(issuesOut) :
              /\ (issuesOut[k].owner = Null) <=> (issuesOut[k].repo = Null)
              /\ issuesOut[k].number \in IssueNumbers

\* a message with a capitalised marker, a line break before the inline link and an
\* issue URL: the current format fails, the legacy one recovers owner/repo from the
\* URL; together with a second pin that is not a marker.
C10_Witness ==
    /\ done
    /\ Len(pins) = 2
    /\ CurrentPairs(pins[1]) = {}
    /\ \E i \in 1..Len(pins[1]) : pins[1][i].k = "cur"
    /\ \E i \in 1..Len(pins[1]) : pins[1][i].k = "url"
    /\ pins[2] = <<Tok("txt", 0, "", "")>>
    /\ Len(issuesOut) = 1
    /\ issuesOut[1].owner # Null

(***************************************************************************)
(* C2, C3 (SpecLocator)                                                    *)
(***************************************************************************)
\* C2: a cache entry for (owner, repo, N) whose thread resolves and still has the
\* forum as its parent makes findThreadsForIssue return exactly that thread with
\* no active-thread fetch, no archived-page fetch and no pinned-message fetch.
C2_CacheHit ==
    (lastFind.called /\ lastFind.cachedBefore # 0
        /\ ~lastFind.cachedGone /\ ~lastFind.fetchFails)
    => /\ lastFind.threads = <<lastFind.cachedBefore>>
       /\ lastFind.activeFetches = 0
       /\ lastFind.archivedFetches = 0
       /\ lastFind.pinFetches = 0

\* the cache answers with thread 3, which carries no marker at all
C2_Witness ==
    /\ lastFind.called /\ lastFind.hit
    /\ lastFind.cachedBefore = 3
    /\ lastFind.threads = <<3>>

\* C3: a cached thread that fails to resolve, or resolves outside the forum, has
\* its entry deleted, the call returns normally after the full search, and a
\* following call with the same arguments never returns the stale thread.
C3_StaleEntryInvalidated ==
    /\ (lastFind.called /\ lastFind.cachedBefore # 0
           /\ (lastFind.cachedGone \/ lastFind.fetchFails))
       => /\ lastFind.invalidated
          /\ ~lastFind.hit
          /\ lastFind.activeFetches = 1
          /\ lastFind.archivedFetches >= 1
          /\ LET e == getThreadCacheEntry(threadCache, lastFind.owner, lastFind.repo,
                                          lastFind.issueNumber)
             IN  e.threadId = 0 \/ lastFind.threads = <<e.threadId>>
    /\ lastFind.prevStale # 0 => ~SeqContains(lastFind.threads, lastFind.prevStale)

\* the entry pointed at thread 2, which had been moved away; the search found
\* thread 1 and the following call is answered with thread 1 from the cache
C3_Witness ==
    /\ lastFind.called /\ lastFind.prevSame
    /\ lastFind.prevStale = 2
    /\ lastFind.hit
    /\ lastFind.threads = <<1>>

(***************************************************************************)
(* C9 (SpecArchive)                                                        *)
(***************************************************************************)
\* the first request whose answer is empty, reports no further page, or throws
StopPage ==
    Least({ p \in 1..(Len(archPages) + 1) :
              LET pg == UpstreamPage(archPages, p) IN
              pg.kind = "throws" \/ ~pg.hasMore \/ PageThreads(threads, pg) = <<>> })

\* the threads the enumeration has gathered when it stops
Gathered ==
    SeqToSet(ActiveThreadIds(threads)) \cup
    (IF \E p \in 1..StopPage : UpstreamPage(archPages, p).kind = "threads"
     THEN SeqToSet(ArchivedThreadIds(threads)) ELSE {})

\* a pinned message of thread t is a marker for issue n
HasMarkerFor(t, n) ==
    \E k \in 1..Len(threads[t].pinned) :
        /\ ExpectedEntries(threads[t].pinned[k]) # <<>>
        /\ ExpectedEntries(threads[t].pinned[k])[1].number = n

\* C9: the archived enumeration stops after the first page that is empty, reports
\* hasMore = false or throws; with no archived thread it makes exactly one request;
\* a failing request does not abort the search: the threads gathered so far are
\* scanned (stated for a search without owner/repo, where every gathered thread
\* is a candidate).
C9_ArchivedEnumeration ==
    (lastFind.called /\ ~lastFind.hit)
    => /\ lastFind.archivedFetches = StopPage
       /\ ArchivedThreadIds(threads) = <<>> => lastFind.archivedFetches = 1
       /\ lastFind.owner = Null =>
             /\ SeqToSet(lastFind.threads) \subseteq Gathered
             /\ (lastFind.threads # <<>>)
                  <=> (\E t \in Gathered : HasMarkerFor(t, lastFind.issueNumber))

\* page 1 lists the archived thread 2 and announces more, page 2 throws: two
\* requests, and thread 2 is still found
C9_Witness ==
    /\ lastFind.called /\ ~lastFind.hit
    /\ Len(archPages) = 2
    /\ archPages[1] = Page("threads", TRUE)
    /\ archPages[2].kind = "throws"
    /\ lastFind.archivedFetches = 2
    /\ lastFind.threads = <<2>>

(***************************************************************************)
(* Requests of a run                                                       *)
(***************************************************************************)
TrackerOps == {"GET label", "POST label", "POST issue label", "DELETE issue label",
               "PATCH issue state", "GET issue", "GET comments", "PATCH comment",
               "POST comment"}

CallsOf(r, op) == { j \in 1..Len(r.calls) : r.calls[j].op = op }

SentTo(r, t) == { j \in CallsOf(r, "send") : r.calls[j].number = t }

(***************************************************************************)
(* C1: processing the same issues.opened delivery twice (identical        *)
(* payload, the issue without the sync label) results in exactly one chat *)
(* thread for that issue.                                                 *)
(***************************************************************************)
ThreadsFor(number, owner, repo) ==
    { t \in 1..Len(threads) : threads[t].starter = SyncMarker(number, owner, repo) }

C1_OneThreadPerRedelivery ==
    \A i, j \in 1..Len(runs) :
        ( /\ i < j
          /\ runs[i].kind = "issues.opened"
          /\ runs[i].ev = runs[j].ev
          /\ runs[i].ev.installation # 0
          /\ ~hasSyncLabel(runs[i].ev.issue)
          /\ runs[i].pc = "done" /\ runs[j].pc = "done" )
        => Cardinality(ThreadsFor(runs[i].ev.issue.number, runs[i].ev.owner,
                                  runs[i].ev.repo)) = 1

(***************************************************************************)
(* C8: an issue-opened run for an issue without the sync label makes      *)
(* exactly one add-label request for the sync label and only afterwards   *)
(* creates exactly one thread, named like the issue, whose starter        *)
(* message carries the marker of the issue's number and owner/repo and is *)
(* pinned; a run for an issue that carries the sync label makes no        *)
(* request and changes nothing in the chat.                               *)
(***************************************************************************)
OpenedRun(r) == r.kind = "issues.opened" /\ r.ev.installation # 0

C8_IssueOpened ==
    \A i \in 1..Len(runs) :
        LET r == runs[i]
            e == r.ev
            labelCalls == CallsOf(r, "POST issue label")
            createCalls == CallsOf(r, "create thread")
        IN  OpenedRun(r) =>
              IF hasSyncLabel(e.issue)
              THEN r.calls = <<>> /\ r.pc = "done" /\ r.created = 0
              ELSE /\ \A j \in 1..Len(r.calls) :
                         r.calls[j].op \in TrackerOps =>
                            r.calls[j] = Call("POST issue label", e.owner, e.repo,
                                              e.issue.number, SYNC_LABEL)
                   /\ Cardinality(labelCalls) <= 1 /\ Cardinality(createCalls) <= 1
                   /\ \A c \in createCalls : \E l \in labelCalls : l < c
                   /\ r.pc = "done" =>
                         /\ Cardinality(labelCalls) = 1 /\ Cardinality(createCalls) = 1
                         /\ r.created \in 1..Len(threads)
                         /\ threads[r.created].name = e.issue.title
                         /\ threads[r.created].pinned = <<threads[r.created].starter>>
                         /\ getSyncedIssueInfo(threads[r.created].pinned) =
                               <<IssueRef(e.issue.number, e.owner, e.repo)>>

C8_Witness ==
    \E i \in 1..Len(runs) :
        /\ OpenedRun(runs[i]) /\ ~hasSyncLabel(runs[i].ev.issue)
        /\ runs[i].pc = "done"
        /\ runs[i].created # 0
        /\ threads[runs[i].created].name = <<"Crash">>
        /\ threads[runs[i].created].pinned = <<SyncMarker(1, "acme", "app")>>

(***************************************************************************)
(* C6: a comment-created run for a comment that is not ignored, on an     *)
(* issue whose payload carries the sync label, sends exactly one message  *)
(* to each thread the Thread Locator returned (at most one thread, so one *)
(* message in all, or none) and creates no thread.                        *)
(***************************************************************************)
MirroredCommentRun(r) ==
    /\ r.kind = "issue_comment.created"
    /\ r.ev.installation # 0
    /\ ~(r.ev.comment.login = BridgeLogin \/ HasDiscordMarker(r.ev.comment.body))
    /\ \E j \in 1..Len(r.ev.issue.labels) : r.ev.issue.labels[j] = SYNC_LABEL

C6_OneMessagePerThread ==
    /\ \A i \in 1..Len(runs) :
          LET r == runs[i] IN
          MirroredCommentRun(r) =>
             /\ CallsOf(r, "create thread") = {} /\ r.created = 0
             /\ \A j \in 1..Len(r.calls) : r.calls[j].op \notin TrackerOps
             /\ Len(r.found) <= 1
             /\ \A t \in 1..Len(threads) :
                   Cardinality(SentTo(r, t)) =
                      IF r.pc = "done" /\ SeqContains(r.found, t) THEN 1 ELSE 0
    /\ \A t \in 1..Len(threads) :
          Len(threads[t].sent) =
             Cardinality({ i \in 1..Len(runs) : SentTo(runs[i], t) # {} })

\* a comment "#2 #1" on issue 2: thread 1 is located, gets the one message, and
\* the reference to issue 2 has become a link to thread 1
C6_Witness ==
    \E i \in 1..Len(runs) :
        /\ MirroredCommentRun(runs[i])
        /\ runs[i].pc = "done"
        /\ runs[i].found = <<1>>
        /\ Len(threads[1].sent) = 1
        /\ threads[1].sent[1].author = "carol"
        /\ threads[1].sent[1].description[1] = Tok("tref", 2, "", "1")

(***************************************************************************)
(* C5: every tracker comment the bridge creates or extends from a chat    *)
(* message contains the marker "** on Discord says]"; the comment-created *)
(* handler makes no tracker request and no chat change for a comment      *)
(* whose author is the bridge identity or whose body contains the marker; *)
(* so no thread ever receives a comment that came from the chat.          *)
(***************************************************************************)
ContainsMarker(body) == \E j \in 1..Len(body) : body[j].k \in {"says", "mark"}

ChatComments ==
    { c \in UNION { SeqToSet(gh.comments[k]) : k \in DOMAIN gh.comments } : c.fromChat }

C5_NoEcho ==
    /\ \A c \in ChatComments : ContainsMarker(c.body)
    /\ \A i \in 1..Len(runs) :
          ( /\ runs[i].kind = "issue_comment.created"
            /\ (runs[i].ev.comment.login = BridgeLogin
                \/ ContainsMarker(runs[i].ev.comment.body)) )
          => runs[i].calls = <<>> /\ runs[i].pc = "done" /\ runs[i].created = 0
    /\ \A t \in 1..Len(threads) : \A m \in SeqToSet(threads[t].sent) :
          \A c \in ChatComments : m.description # c.body

\* bob writes in thread 1, the bridge posts his words as a comment under a login
\* of its own, and the delivery of that comment is dropped
C5_Witness ==
    \E i, j \in 1..Len(runs) :
        /\ i < j
        /\ runs[i].kind = "message"
        /\ CallsOf(runs[i], "POST comment") # {}
        /\ runs[j].kind = "issue_comment.created"
        /\ runs[j].ev.comment = Comment("bridge[bot]",
                                        <<Tok("says", 0, "bob", ""), Tok("nl", 0, "", "")>>
                                            \o Text)
        /\ runs[j].pc = "done" /\ runs[j].calls = <<>>

(***************************************************************************)
(* C4: whenever a handler would add a tag to a thread that already holds  *)
(* 5 applied tags, the thread's applied tags are left as they were (no    *)
(* tag added, replaced or dropped) and the handler does not throw.        *)
(***************************************************************************)
C4_TagCeiling ==
    \A i \in 1..Len(runs) :
        ( /\ runs[i].kind \in {"issues.labeled", "issues.closed", "thread", "message"}
          /\ Len(runs[i].tagsBefore) = 5 )
        => runs[i].tagsAfter = runs[i].tagsBefore /\ ~runs[i].thrown

(***************************************************************************)
(* handleIssueReopened (part_001 783-838), handleIssueUnlabeled (954-1008) *)
(***************************************************************************)
\* createIssueStatusEmbed(issue, "reopened", actor)
ReopenEmbed == [description |-> <<Tok("txt", 0, "", "")>>, author |-> "Issue reopened"]

RECURSIVE RemoveTagFromThreads(_, _, _)
\* thread.setAppliedTags(currentTags.filter((id) => id !== tag.id)) on each
\* thread that holds the tag
RemoveTagFromThreads(cs, found, tagId) ==
    IF found = <<>> THEN cs
    ELSE LET t == Head(found)
             currentTags == cs.ths[t].appliedTags
         IN  RemoveTagFromThreads(
                 IF ~SeqContains(currentTags, tagId) THEN cs
                 ELSE ChatState([cs.ths EXCEPT ![t].appliedTags =
                                     SelectSeq2(@, SeqToSet(@) \ {tagId})],
                                cs.tags, cs.calls \o <<ChatCall("setAppliedTags", t)>>),
                 Tail(found), tagId)

RECURSIVE ReopenThreads_KeepsTag(_, _, _)
\* A plausible slip: the reopened notice is sent and the closed tag stays.
ReopenThreads_KeepsTag(cs, found, closedTag) ==
    IF found = <<>> THEN cs
    ELSE LET t == Head(found)
         IN  ReopenThreads_KeepsTag(
                 ChatState([cs.ths EXCEPT ![t].sent = Append(@, ReopenEmbed)],
                           cs.tags, cs.calls \o <<ChatCall("send", t)>>),
                 Tail(found), closedTag)

RECURSIVE ReopenThreads(_, _, _)
\* for (const thread of threads): the notice, then the closed tag is taken off
ReopenThreads(cs, found, closedTag) ==
    IF found = <<>> THEN cs
    ELSE LET t == Head(found)
             noticed == ChatState([cs.ths EXCEPT ![t].sent = Append(@, ReopenEmbed)],
                                  cs.tags, cs.calls \o <<ChatCall("send", t)>>)
         IN  ReopenThreads(
                 IF closedTag = NoTag THEN noticed
                 ELSE RemoveTagFromThreads(noticed, <<t>>, closedTag.id),
                 Tail(found), closedTag)

handleIssueReopened(ths, tags, cache, pages, e) ==
    LET Noticed(f, cs) ==
            Outcome(cs.ths, cs.tags, f.cache, f.cacheWritten, cs.calls, f.threads)
        Tagged(f, c) ==
            Noticed(f, ReopenThreads(ChatState(ths, c.tags, <<>>), f.threads, c.tag))
        Located(f) == Tagged(f, getOrCreateClosedForumTag(tags))
    IN  Located(findThreadsForIssue(ths, tags, cache, pages, e.issue.number, e.owner,
                                    e.repo, e.issue.title, FALSE))

handleIssueUnlabeled(ths, tags, cache, pages, e) ==
    LET Removed(f, cs) ==
            Outcome(cs.ths, cs.tags, f.cache, f.cacheWritten, cs.calls, f.threads)
        Located(f) ==
            IF f.threads = <<>> \/ FindTagByName(tags, e.label) = NoTag
            THEN Outcome(ths, tags, f.cache, f.cacheWritten, <<>>, f.threads)
            ELSE Removed(f, RemoveTagFromThreads(ChatState(ths, tags, <<>>), f.threads,
                                                 FindTagByName(tags, e.label).id))
    IN  IF isSyncLabel(e.label) \/ e.label = e.repo \/ isClosedTagName(e.label)
        THEN Outcome(ths, tags, cache, FALSE, <<>>, <<>>)
        ELSE Located(findThreadsForIssue(ths, tags, cache, pages, e.issue.number, e.owner,
                                         e.repo, e.issue.title, FALSE))

(***************************************************************************)
(* SpecStatus: closed, reopened, labeled and unlabeled events for the      *)
(* issue of one thread, a person who edits the thread's tags, and the      *)
(* thread-update event the gateway sends for every change of a thread's    *)
(* tags, whoever made it.                                                  *)
(***************************************************************************)
ClosedForumTag == Tag(4, CLOSED_TAG_NAME, CLOSED_TAG_EMOJI)

\* the forum before and after the closed tag was first needed
StatusForums ==
    { <<RepoTagApp, BugTag, Tag(3, "ui", NoEmoji)>>,
      <<RepoTagApp, BugTag, Tag(3, "ui", NoEmoji), ClosedForumTag>> }

StatusEvent(type, name) ==
    [Event(type, "acme", "app", InstallationId,
           Issue(1, TitleOf(1), <<SYNC_LABEL>>), NoComment) EXCEPT !.label = name]

\* Events.ThreadUpdate as the gateway delivers it: the thread before and after
ThreadUpdateEvent(t, old, new, cause) == [thread |-> t, old |-> old, new |-> new, cause |-> cause]

InitStatus ==
    /\ NoParse /\ NoFinds /\ NoCache
    /\ availableTags \in StatusForums
    /\ \E a \in { <<1>>, <<1, 2>>, <<1, 2, 3>> }, closed \in BOOLEAN :
          /\ closed => Len(availableTags) = 4
          /\ threads = <<MirrorThread(IF closed THEN Append(a, 4) ELSE a)>>
    /\ archPages = HonestPages
    /\ gh = [InitTracker EXCEPT !.labels[<<"acme", "app", 1>>] = {SYNC_LABEL}]
    /\ lastInstallationId = InstallationId
    /\ runs = <<>>
    /\ inbox = {}

\* webhooks.on("issues.closed" | "issues.reopened" | "issues.labeled" |
\* "issues.unlabeled", ...): the whole handler; a change of the thread's tags
\* comes back as a thread-update event
StatusChange(e) ==
    /\ Len(runs) < MaxRuns
    /\ \E out \in { CASE e.type = "issues.closed" ->
                          handleIssueClosed(threads, availableTags, threadCache, archPages, e)
                      [] e.type = "issues.reopened" ->
                          handleIssueReopened(threads, availableTags, threadCache, archPages, e)
                      [] e.type = "issues.labeled" ->
                          handleIssueLabeled(threads, availableTags, threadCache, archPages, e)
                      [] OTHER ->
                          handleIssueUnlabeled(threads, availableTags, threadCache, archPages, e) } :
       \E t \in { IF out.found = <<>> THEN 0 ELSE out.found[1] } :
        /\ threads' = out.ths
        /\ availableTags' = out.tags
        /\ threadCache' = out.cache
        /\ threadCacheSaveTimer' = IF out.cacheWritten
                                   THEN scheduleThreadCacheSave(threadCacheSaveTimer)
                                   ELSE threadCacheSaveTimer
        /\ lastInstallationId' = e.installation
        /\ inbox' = IF t # 0 /\ out.ths[t].appliedTags # threads[t].appliedTags
                    THEN inbox \cup {ThreadUpdateEvent(t, threads[t], out.ths[t], e.type)}
                    ELSE inbox
        /\ runs' = Append(runs,
                      FinishedRun(e.type, e, out, t,
                                  IF t = 0 THEN <<>> ELSE threads[t].appliedTags,
                                  IF t = 0 THEN <<>> ELSE out.ths[t].appliedTags))
        /\ UNCHANGED <<parseVars, archPages, cacheFile, cacheIo, findVars, gh>>

IssueClosed   == StatusChange(StatusEvent("issues.closed", ""))
IssueReopened == StatusChange(StatusEvent("issues.reopened", ""))
IssueLabeled ==
    \E name \in {"Bug", "ui", SYNC_LABEL, "app", CLOSED_TAG_NAME} :
        StatusChange(StatusEvent("issues.labeled", name))
IssueUnlabeled ==
    \E name \in {"Bug", "ui", SYNC_LABEL, "app", CLOSED_TAG_NAME} :
        StatusChange(StatusEvent("issues.unlabeled", name))

\* a person adds a tag of the forum to the thread or takes one off
PersonEditsTags ==
    /\ inbox = {} /\ Len(runs) < MaxRuns
    /\ \E i \in 1..Len(availableTags) :
          LET id  == availableTags[i].id
              old == threads[1]
              new == [old EXCEPT !.appliedTags =
                          IF SeqContains(@, id) THEN SelectSeq2(@, SeqToSet(@) \ {id})
                          ELSE Append(@, id)]
          IN  /\ Len(new.appliedTags) <= ThreadTagLimit
              /\ threads' = [threads EXCEPT ![1] = new]
              /\ inbox' = {ThreadUpdateEvent(1, old, new, "person")}
    /\ UNCHANGED <<parseVars, availableTags, archPages, cacheVars, findVars, gh,
                   lastInstallationId, runs>>

\* client.on(Events.ThreadUpdate, handleThreadUpdate)
ThreadUpdated ==
    \E u \in inbox :
    \E res \in { handleThreadUpdate(gh, availableTags, u.old, u.new, lastInstallationId) } :
        /\ inbox' = inbox \ {u}
        /\ gh' = res.gh
        /\ runs' = Append(runs,
                      [Run("threadUpdate",
                           [Event("threadUpdate", "", "", lastInstallationId,
                                  Issue(u.thread, u.new.name, <<>>), NoComment)
                               EXCEPT !.label = u.cause],
                           "done")
                       EXCEPT !.calls = res.calls, !.thrown = res.thrown, !.thread = u.thread,
                              !.tagsBefore = u.old.appliedTags,
                              !.tagsAfter = u.new.appliedTags])
        /\ UNCHANGED <<parseVars, threads, availableTags, archPages, cacheVars, findVars,
                       lastInstallationId>>

NextStatus ==
    IssueClosed \/ IssueReopened \/ IssueLabeled \/ IssueUnlabeled \/ PersonEditsTags
    \/ ThreadUpdated

SpecStatus == InitStatus /\ [][NextStatus]_vars

(***************************************************************************)
(* Error boundaries and chat sessions: wrapHandler (utils.js 1125-1146),   *)
(* withDiscordClient (part_001 450-482), the try/catch of the chat         *)
(* handlers (utils.js 1190-1303, 1307-1420, 1424-1545)                     *)
(***************************************************************************)
TrackerKinds ==
    { "issues.opened", "issue_comment.created", "issues.closed", "issues.reopened",
      "issues.edited", "issues.labeled", "issues.unlabeled", "issues.milestoned",
      "issues.assigned" }
ChatKinds == { "message", "thread", "threadUpdate" }

\* one handler invocation: where it stands, its session, and how its promise settled
HandlerRun(kind) ==
    [kind |-> kind, pc |-> "start", session |-> "none", login |-> "none",
     listener |-> FALSE, readies |-> 0, bodyRuns |-> 0, calls |-> 0, threw |-> FALSE,
     logged |-> 0, outcome |-> "pending"]

\* const client = createDiscordClient(); client.login(...).catch(...);
\* client.once(Events.ClientReady, ...) (451-460)
OpenSession(r) ==
    [r EXCEPT !.pc = "session", !.session = "open", !.login = "pending", !.listener = TRUE]

\* the catch of client.login: log, client.destroy(), reject(err) (454-458)
LoginFailed(r) ==
    [r EXCEPT !.pc = "done", !.login = "failed", !.session = "destroyed", !.threw = TRUE,
              !.logged = @ + 1, !.outcome = "rejected"]

\* the gateway emits ClientReady: a listener registered with once is removed
\* and runs the body (460-472)
ReadyEmitted(r) ==
    IF r.listener
    THEN [r EXCEPT !.readies = @ + 1, !.listener = FALSE, !.bodyRuns = @ + 1, !.pc = "body"]
    ELSE [r EXCEPT !.readies = @ + 1]

\* A plausible slip: no finally, the session is destroyed after a body that returns only.
EndSession_NoFinally(r, threw) ==
    [r EXCEPT !.pc = "done", !.threw = threw,
              !.logged = IF threw THEN @ + 1 ELSE @,
              !.outcome = IF threw THEN "rejected" ELSE "resolved",
              !.session = IF threw THEN @ ELSE "destroyed"]

\* try { await fn(client); resolve(); } catch (err) { log; reject(err); }
\* finally { client.destroy(); } (471-479); the handler awaits the session's
\* promise outside any try, and so does wrapHandler (utils.js 1145)
EndSession(r, threw) ==
    [r EXCEPT !.pc = "done", !.threw = threw,
              !.logged = IF threw THEN @ + 1 ELSE @,
              !.outcome = IF threw THEN "rejected" ELSE "resolved",
              !.session = "destroyed"]

\* getInstallationOctokit fails in wrapHandler (utils.js 1144) or getRepoInfo
\* throws (part_001 437-439): nothing catches it in the handler or in wrapHandler,
\* webhooks.onError logs it (utils.js 1161-1163)
RequestFailed(r) ==
    [r EXCEPT !.pc = "done", !.threw = TRUE, !.logged = @ + 1, !.outcome = "rejected"]

\* try { ... } catch (err) { logEvent("error", ...) } around the whole body of a
\* chat handler
EndTry(r, threw) ==
    [r EXCEPT !.pc = "done", !.threw = threw, !.logged = IF threw THEN @ + 1 ELSE @,
              !.outcome = "resolved"]

SessionUnchanged ==
    UNCHANGED <<parseVars, chatVars, cacheVars, findVars, gh, lastInstallationId>>

\* an event of the inbox arrives: wrapHandler(handler, eventName)(context), or
\* client.on(...)
Receive ==
    /\ Len(runs) < MaxRuns
    /\ \E kind \in inbox :
          /\ runs' = Append(runs, HandlerRun(kind))
          /\ inbox' = inbox \ {kind}
    /\ SessionUnchanged

\* the handler reaches withDiscordClient, or a chat handler enters its try
Enter(i) ==
    /\ runs[i].pc = "start"
    /\ runs' = [runs EXCEPT ![i] = IF runs[i].kind \in ChatKinds
                                   THEN [@ EXCEPT !.pc = "try"]
                                   ELSE OpenSession(@)]
    /\ UNCHANGED inbox /\ SessionUnchanged

\* the handler fails before it opens a session
RequestFails(i) ==
    /\ runs[i].pc = "start" /\ runs[i].kind \in TrackerKinds
    /\ runs' = [runs EXCEPT ![i] = RequestFailed(@)]
    /\ UNCHANGED inbox /\ SessionUnchanged

\* client.login settles; it cannot fail once the gateway has said ready
LoginSettles(i) ==
    /\ runs[i].session = "open" /\ runs[i].login = "pending"
    /\ \E ok \in BOOLEAN :
          /\ ~ok => runs[i].readies = 0
          /\ runs' = [runs EXCEPT ![i] = IF ok THEN [@ EXCEPT !.login = "ok"]
                                         ELSE LoginFailed(@)]
    /\ UNCHANGED inbox /\ SessionUnchanged

\* the gateway says ready, once or (after a reconnect) a second time
GatewayReady(i) ==
    /\ runs[i].session = "open" /\ runs[i].readies < 2
    /\ runs' = [runs EXCEPT ![i] = ReadyEmitted(@)]
    /\ UNCHANGED inbox /\ SessionUnchanged

\* the first remote call of the body returns
BodyCall(i) ==
    /\ runs[i].pc \in {"body", "try"} /\ runs[i].calls = 0
    /\ runs' = [runs EXCEPT ![i].calls = @ + 1]
    /\ UNCHANGED inbox /\ SessionUnchanged

\* the body returns, or a remote call of it fails
BodyEnds(i) ==
    /\ runs[i].pc \in {"body", "try"}
    /\ \E threw \in BOOLEAN :
          runs' = [runs EXCEPT ![i] = IF runs[i].pc = "try" THEN EndTry(@, threw)
                                       ELSE EndSession(@, threw)]
    /\ UNCHANGED inbox /\ SessionUnchanged

SessionStep(i) ==
    Enter(i) \/ RequestFails(i) \/ LoginSettles(i) \/ GatewayReady(i) \/ BodyCall(i)
    \/ BodyEnds(i)

InitSession ==
    /\ NoParse /\ NoChat /\ NoCache /\ NoFinds
    /\ gh = NoIssues /\ lastInstallationId = 0 /\ runs = <<>>
    /\ inbox \in { {a, b} : a \in TrackerKinds \cup ChatKinds, b \in TrackerKinds \cup ChatKinds }

NextSession == Receive \/ \E i \in 1..Len(runs) : SessionStep(i)

SpecSession == InitSession /\ [][NextSession]_vars

\* the event loop runs every continuation that is ready, and every remote call
\* of a body settles; nothing is assumed about the gateway
SessionFairness ==
    \A i \in 1..MaxRuns :
        /\ WF_vars(i \in 1..Len(runs) /\ Enter(i))
        /\ WF_vars(i \in 1..Len(runs) /\ BodyEnds(i))

SpecSessionLive == SpecSession /\ SessionFairness

(***************************************************************************)
(* The revision that keeps the repository of the event in a variable of    *)
(* the utils module: setTargetRepo, getTargetRepo (part_003 13-29),        *)
(* handleIssueComment (part_001 95-144)                                    *)
(***************************************************************************)
\* return currentRepo || env.TARGET_REPO
getTargetRepo(current) == IF current # NoRepo THEN current ELSE DefaultRepo

\* issue_comment.created for issue 2 of a repository, not yet synced or synced
RepoCommentEvents ==
    { Event("issue_comment.created", k[1], k[2], InstallationId,
            Issue(2, TitleOf(2), labels), Comment("carol", <<Tok("txt", 0, "", "")>>))
      : k \in RepoKeys, labels \in { <<>>, <<SYNC_LABEL>> } }

\* the lookup findThreadsForIssue(client, forum, issue.number, owner, repo)
Lookup(op, target, number) == Call(op, target[1], target[2], number, "")

InitRepo ==
    /\ NoParse /\ NoChat /\ NoCache /\ NoFinds
    /\ gh = NoIssues /\ lastInstallationId = 0 /\ runs = <<>>
    /\ inbox = RepoCommentEvents

\* handleIssueComment up to await withDiscordClient: setTargetRepo(repo) (96-97)
CommentArrives ==
    /\ Len(runs) < MaxRuns
    /\ \E e \in inbox :
          /\ currentRepo' = <<e.owner, e.repo>>
          /\ runs' = Append(runs, Run(e.type, e, IF hasSyncLabel(e.issue) THEN "find"
                                                  ELSE "label"))
    /\ UNCHANGED <<parseVars, chatVars, cacheVars, lastFind, gh, lastInstallationId, inbox>>

\* the handler resumes after an await and reads getRepoOwner(), getRepoName()
\*   label: POST .../labels with the sync label (109-115)
\*   find:  findThreadsForIssue (120-127)
\*   refs:  processGitHubIssueRefs (129-135)
CommentResumes(i) ==
    LET r == runs[i]
        target == getTargetRepo(currentRepo)
    IN  /\ r.pc \in {"label", "find", "refs"}
        /\ runs' = [runs EXCEPT
                      ![i].pc = CASE r.pc = "label" -> "find"
                                  [] r.pc = "find" -> "refs"
                                  [] OTHER -> "done",
                      ![i].calls = Append(@,
                          CASE r.pc = "label" ->
                                   Call("POST issue label", target[1], target[2],
                                        r.ev.issue.number, SYNC_LABEL)
                            [] r.pc = "find" ->
                                   Lookup("findThreadsForIssue", target, r.ev.issue.number)
                            [] OTHER ->
                                   Lookup("processGitHubIssueRefs", target, r.ev.issue.number))]
        /\ gh' = IF r.pc = "label"
                 THEN [gh EXCEPT !.labels[<<target[1], target[2], r.ev.issue.number>>] =
                                     @ \cup {SYNC_LABEL}]
                 ELSE gh
        /\ UNCHANGED <<parseVars, chatVars, cacheVars, findVars, lastInstallationId, inbox>>

NextRepo == CommentArrives \/ \E i \in 1..Len(runs) : CommentResumes(i)

SpecRepo == InitRepo /\ [][NextRepo]_vars

(***************************************************************************)
(* The search path of the latest findThreadsForIssue call, read against    *)
(* the forum it ran on                                                     *)
(***************************************************************************)
\* the call did not answer from the cache
Searched == lastFind.called /\ ~lastFind.hit

\* the candidates in the order the scan visits them
SearchOrder ==
    OrderedThreads(threads,
                   CandidateThreads(threads, availableTags,
                                    EnumerateThreads(threads, archPages).all, lastFind.repo),
                   lastFind.issueTitle)

\* what the Identity Resolver reads in one message is the queried issue
Accepts(content) ==
    LET p == ParsePinnedMessage(content) IN
    /\ p # <<>>
    /\ p[1].number = lastFind.issueNumber
    /\ \/ lastFind.owner = Null \/ lastFind.repo = Null
       \/ p[1].owner = Null \/ p[1].repo = Null
       \/ (p[1].owner = lastFind.owner /\ p[1].repo = lastFind.repo)

\* thread t delivers its pinned messages and one of them is accepted
Matches(t) ==
    /\ threads[t].pinFetch = "ok"
    /\ \E k \in 1..Len(threads[t].pinned) : Accepts(threads[t].pinned[k])

Returned(t) == \E x \in 1..Len(lastFind.threads) : lastFind.threads[x] = t

(***************************************************************************)
(* C11: on the search path a candidate is accepted iff one of its pinned   *)
(* messages parses to the queried issue number and either no owner/repo    *)
(* was requested, or the parsed owner/repo equals the requested one, or    *)
(* the parsed owner/repo could not be determined; a thread with no such    *)
(* pinned message is never returned.                                       *)
(***************************************************************************)
C11_Acceptance ==
    Searched =>
        /\ \A t \in 1..Len(threads) : Returned(t) => Matches(t)
        /\ \A j \in 1..lastFind.pinFetches : Returned(SearchOrder[j]) <=> Matches(SearchOrder[j])

\* acme/app#1 is asked for: the first candidate's marker names other/lib#1 and is
\* passed over, the second carries a legacy marker without a repository and is taken
C11_Witness ==
    /\ Searched
    /\ lastFind.issueNumber = 1 /\ lastFind.owner = "acme" /\ lastFind.repo = "app"
    /\ lastFind.pinFetches = 2
    /\ threads[SearchOrder[1]].pinned = <<SyncMarker(1, "other", "lib")>>
    /\ threads[SearchOrder[1]].pinFetch = "ok"
    /\ threads[SearchOrder[2]].pinned = <<LegacyMarker(1)>>
    /\ lastFind.threads = <<SearchOrder[2]>>

(***************************************************************************)
(* C12: on the search path findThreadsForIssue returns at most one thread, *)
(* the first candidate of the ordered list with a matching pinned message; *)
(* no pinned messages of later candidates are fetched after the first      *)
(* match; the result is empty iff no candidate matches.                    *)
(***************************************************************************)
MatchingPositions == { j \in 1..Len(SearchOrder) : Matches(SearchOrder[j]) }

FirstMatch == CHOOSE j \in MatchingPositions : \A k \in MatchingPositions : j <= k

C12_FirstMatchOnly ==
    Searched =>
        /\ Len(lastFind.threads) <= 1
        /\ lastFind.threads = <<>> <=> MatchingPositions = {}
        /\ MatchingPositions = {} => lastFind.pinFetches = Len(SearchOrder)
        /\ MatchingPositions # {} =>
              /\ lastFind.threads = <<SearchOrder[FirstMatch]>>
              /\ lastFind.pinFetches = FirstMatch

\* both threads carry the marker of acme/app#1; the title puts thread 2 first, it
\* is returned and the pinned messages of thread 1 are never fetched
C12_Witness ==
    /\ Searched
    /\ lastFind.issueTitle = <<"crash">>
    /\ SearchOrder = <<2, 1>>
    /\ Matches(1) /\ Matches(2)
    /\ lastFind.threads = <<2>>
    /\ lastFind.pinFetches = 1

(***************************************************************************)
(* C13: whenever the search path of findThreadsForIssue(forum, N, owner,   *)
(* repo) returns a thread, the cache afterwards holds an entry for         *)
(* (owner, repo, N) with that thread's id and name, so the next call with  *)
(* the same arguments is answered from the cache.                          *)
(***************************************************************************)
C13_SearchFillsCache ==
    (Searched /\ lastFind.threads # <<>> /\ lastFind.owner # Null /\ lastFind.repo # Null) =>
        getThreadCacheEntry(threadCache, lastFind.owner, lastFind.repo, lastFind.issueNumber)
            = CacheEntry(lastFind.threads[1], threads[lastFind.threads[1]].name)

(***************************************************************************)
(* SpecForumTag: calls of getOrCreateForumTag on forums that hold few      *)
(* tags, 19 tags and 20 tags.                                              *)
(***************************************************************************)
\* the names of the tags a forum already has
FillerNames ==
    << "t1", "t2", "t3", "t4", "t5", "t6", "t7", "t8", "t9", "t10",
       "t11", "t12", "t13", "t14", "t15", "t16", "t17", "t18", "t19", "t20" >>

\* a forum of k tags; its first tag may be "Bug", with or without an emoji
Forum(k, bug, emoji) ==
    [i \in 1..k |-> IF i = 1 /\ bug THEN Tag(1, "Bug", emoji)
                    ELSE Tag(i, FillerNames[i], NoEmoji)]

ForumSizes == {0, 1, 2, 18, 19, 20}

\* one getOrCreateForumTag call as the log keeps it
TagCall(tagName, emoji, before, out) ==
    [kind |-> "forumTag", tagName |-> tagName, emoji |-> emoji, before |-> before,
     after |-> out.tags, tag |-> out.tag]

InitForumTag ==
    /\ NoParse /\ NoFinds /\ NoCache /\ NoTracker
    /\ threads = <<>>
    /\ archPages = HonestPages
    /\ availableTags \in { Forum(k, bug, e) : k \in ForumSizes, bug \in BOOLEAN,
                                               e \in {NoEmoji, REPO_TAG_EMOJI} }

\* a handler asks for a tag by name
GetOrCreateForumTag ==
    /\ Len(runs) < MaxRuns
    /\ \E tagName \in {"bug", "Bug", "app", "t2", "docs"}, emoji \in {NoEmoji, REPO_TAG_EMOJI} :
          \E out \in { getOrCreateForumTag(availableTags, tagName, emoji) } :
              /\ availableTags' = out.tags
              /\ runs' = Append(runs, TagCall(tagName, emoji, availableTags, out))
    /\ UNCHANGED <<parseVars, threads, archPages, cacheVars, findVars, gh,
                   lastInstallationId, inbox>>

NextForumTag == GetOrCreateForumTag

SpecForumTag == InitForumTag /\ [][NextForumTag]_vars

(***************************************************************************)
(* C14: getOrCreateForumTag returns the existing tag on a case-insensitive *)
(* name match without creating anything; when no tag matches and the forum *)
(* already has 20 tags it returns null without calling setAvailableTags;   *)
(* below 20 it creates exactly one tag; so the forum's tag list never      *)
(* exceeds 20 entries through this operation.                              *)
(***************************************************************************)
NamedLike(tags, tagName) == { i \in 1..Len(tags) : Lower(tags[i].name) = Lower(tagName) }

TagIds(tags) == [i \in 1..Len(tags) |-> tags[i].id]

C14_ForumTagCeiling ==
    \A x \in 1..Len(runs) :
        LET r == runs[x]
            n == Len(r.before)
        IN  /\ NamedLike(r.before, r.tagName) # {} =>
                  /\ TagIds(r.after) = TagIds(r.before)
                  /\ \E i \in NamedLike(r.before, r.tagName) :
                        r.tag.id = r.before[i].id /\ r.tag.name = r.before[i].name
            /\ (NamedLike(r.before, r.tagName) = {} /\ n >= 20) =>
                  r.tag = NoTag /\ r.after = r.before
            /\ (NamedLike(r.before, r.tagName) = {} /\ n < 20) =>
                  /\ Len(r.after) = n + 1
                  /\ SubSeq(r.after, 1, n) = r.before
                  /\ r.after[n + 1].name = r.tagName
                  /\ r.tag = r.after[n + 1]
            /\ n <= 20 => Len(r.after) <= 20

\* a forum of 19 tags: "docs" is created as the 20th, then "app" is refused
C14_Witness ==
    /\ Len(runs) = 2
    /\ Len(runs[1].before) = 19 /\ runs[1].tagName = "docs" /\ runs[1].tag.name = "docs"
    /\ Len(runs[2].before) = 20 /\ runs[2].tagName = "app" /\ runs[2].tag = NoTag
    /\ Len(availableTags) = 20

(***************************************************************************)
(* C15: structural tags are never propagated as labels in either           *)
(* direction: no handler makes a tracker label add/remove call for the     *)
(* sync tag, a repository-selector tag or the closed tag, and no handler   *)
(* adds or removes a forum tag for the sync label, the repository-name     *)
(* label or the closed label; in particular the thread-update event that   *)
(* follows the bridge's own change of the closed tag after an issue was    *)
(* closed or reopened causes no label call on the tracker.                 *)
(***************************************************************************)
LabelCalls(r) == CallsOf(r, "POST issue label") \cup CallsOf(r, "DELETE issue label")

\* the name belongs to the sync tag, a repository-selector tag or the closed tag
StructuralTagName(name) ==
    \/ isSyncLabel(name)
    \/ isClosedTagName(name)
    \/ \E i \in 1..Len(availableTags) :
          availableTags[i].name = name /\ isRepoSelectorTag(availableTags[i])

StructuralLabel(e) == isSyncLabel(e.label) \/ e.label = e.repo \/ isClosedTagName(e.label)

C15_NoStructuralPropagation ==
    \A i \in 1..Len(runs) :
        /\ runs[i].kind = "threadUpdate" =>
              \A j \in LabelCalls(runs[i]) : ~StructuralTagName(runs[i].calls[j].name)
        /\ (runs[i].kind \in {"issues.labeled", "issues.unlabeled"} /\ StructuralLabel(runs[i].ev))
              => runs[i].tagsAfter = runs[i].tagsBefore

(***************************************************************************)
(* C16: no top-level event handler lets a failure escape its boundary:     *)
(* for every tracker-originated handler and every chat-originated handler, *)
(* when a remote call inside it fails the handler logs the error and       *)
(* completes normally (its promise does not reject), and later events are  *)
(* still processed.                                                        *)
(***************************************************************************)
C16_NoEscape ==
    \A i \in 1..Len(runs) :
        (runs[i].pc = "done" /\ runs[i].threw) =>
            runs[i].logged >= 1 /\ runs[i].outcome = "resolved"

(***************************************************************************)
(* C17: every chat session opened by withDiscordClient is eventually       *)
(* destroyed: when the session becomes ready the body runs exactly once    *)
(* and the session is destroyed after the body finishes, whether it        *)
(* returns or throws; when login fails the session is destroyed and the    *)
(* body never runs; the body never runs on a destroyed session.            *)
(***************************************************************************)
SessionSafety ==
    \A i \in 1..Len(runs) :
        LET r == runs[i] IN
        /\ r.bodyRuns = (IF r.readies > 0 THEN 1 ELSE 0)
        /\ r.pc = "body" => r.session = "open"
        /\ (r.pc = "done" /\ r.bodyRuns = 1) => r.session = "destroyed"
        /\ r.login = "failed" => r.session = "destroyed" /\ r.bodyRuns = 0
        /\ r.session = "destroyed" => r.pc = "done"

C17_SessionDestroyed ==
    /\ []SessionSafety
    /\ \A i \in 1..MaxRuns :
          (i \in 1..Len(runs) /\ runs[i].session = "open" /\ runs[i].readies > 0)
              ~> (i \in 1..Len(runs) /\ runs[i].session = "destroyed")

\* one session whose body threw and one whose login failed, both destroyed
C17_Witness ==
    \E i, j \in 1..Len(runs) :
        /\ runs[i].bodyRuns = 1 /\ runs[i].threw /\ runs[i].session = "destroyed"
        /\ runs[j].login = "failed" /\ runs[j].session = "destroyed"

(***************************************************************************)
(* C18: each tracker-originated handler uses, for every tracker call and   *)
(* thread lookup it makes, the (owner, repo) of its own event payload:     *)
(* under any interleaving of two in-flight handlers for events from        *)
(* different repositories, neither makes a call or lookup against the      *)
(* other event's repository.                                               *)
(***************************************************************************)
C18_OwnRepository ==
    \A i \in 1..Len(runs) : \A j \in 1..Len(runs[i].calls) :
        /\ runs[i].calls[j].owner = runs[i].ev.owner
        /\ runs[i].calls[j].repo = runs[i].ev.repo

(***************************************************************************)
(* C19: for any interleaving of an issue-opened event and a first          *)
(* comment-created event for the same previously unsynced issue (both      *)
(* payloads lacking the sync label), and likewise for two such comment     *)
(* events, at most one chat thread is created for the issue.               *)
(***************************************************************************)
\* a delivery that reaches the handler's "not synced yet" branch
FirstSyncRun(r) ==
    /\ r.kind \in {"issues.opened", "issue_comment.created"}
    /\ r.ev.installation # 0
    /\ ~hasSyncLabel(r.ev.issue)
    /\ r.kind = "issue_comment.created" => ~isIgnoredComment(r.ev.comment)

SameIssue(e1, e2) ==
    e1.owner = e2.owner /\ e1.repo = e2.repo /\ e1.issue.number = e2.issue.number

C19_OneThreadPerIssue ==
    \A i, j \in 1..Len(runs) :
        ( /\ i < j
          /\ FirstSyncRun(runs[i]) /\ FirstSyncRun(runs[j])
          /\ SameIssue(runs[i].ev, runs[j].ev)
          /\ runs[i].ev # runs[j].ev
          /\ "issue_comment.created" \in {runs[i].kind, runs[j].kind} )
        => Cardinality(ThreadsFor(runs[i].ev.issue.number, runs[i].ev.owner,
                                  runs[i].ev.repo)) <= 1

(***************************************************************************)
(* SpecRetry: the stepwise webhook handlers of Spec with the chat          *)
(* service able to refuse the creation of a thread, and people commenting  *)
(* on issue 1 afterwards.  The tracker keeps every event it has emitted,   *)
(* so it can deliver any of them again.                                    *)
(***************************************************************************)
\* createDiscordThread rejects at channel.threads.create (523-527): the forum
\* tags made on the way stay, withDiscordClient destroys the session and
\* rethrows, the handler has no catch of its own
CreateThreadFails(i) ==
    LET r == runs[i]
    IN  /\ r.pc = "create"
        /\ \E t \in { ThreadTagIds(availableTags, r.ev.issue, r.ev.repo) } :
            /\ availableTags' = t.tags
            /\ runs' = [runs EXCEPT ![i].thrown = TRUE, ![i].pc = "done"]
            /\ UNCHANGED <<parseVars, threads, archPages, cacheVars, findVars, gh,
                           lastInstallationId, inbox>>

\* somebody comments on issue 1 in the tracker; the event's payload carries the
\* labels the issue has at that moment
PersonComments ==
    LET k == <<"acme", "app", 1>>
        e == CommentEvent(1, IF SYNC_LABEL \in gh.labels[k] THEN <<SYNC_LABEL>> ELSE <<>>,
                          "carol", Text)
    IN  /\ e \notin inbox
        /\ gh' = [gh EXCEPT !.comments[k] = Append(@, TrackerComment("carol", Text, FALSE))]
        /\ inbox' = inbox \cup {e}
        /\ UNCHANGED <<parseVars, chatVars, cacheVars, findVars, lastInstallationId, runs>>

InitRetry ==
    /\ NoParse /\ NoFinds /\ NoCache
    /\ threads = <<SyncedThread>>
    /\ availableTags = <<RepoTagApp>>
    /\ archPages = HonestPages
    /\ gh = InitTracker
    /\ lastInstallationId \in {0, InstallationId}
    /\ runs = <<>>
    /\ inbox \in { {OpenedEvent(InstallationId, <<>>)},
                   {OpenedEvent(InstallationId, <<"Bug">>)},
                   {CommentEvent(1, <<>>, "carol", Text)} }

NextRetry ==
    \/ \E e \in inbox : Deliver(e)
    \/ \E i \in 1..Len(runs) : Step(i)
    \/ \E i \in 1..Len(runs) : CreateThreadFails(i)
    \/ PersonComments

SpecRetry == InitRetry /\ [][NextRetry]_vars

(***************************************************************************)
(* C20: an issue that got the sync label from the bridge always gets a     *)
(* thread: when the creation of the thread failed after the label was      *)
(* applied, a later comment event on that issue still creates the thread.  *)
(* Stated on quiescent states: once a run has failed at the creation, a    *)
(* comment event whose payload carries the label has been handled and no   *)
(* handler is under way, the issue has a thread.                           *)
(***************************************************************************)
\* a run that applied the sync label and then failed to create the thread
FailedAtCreate(r) ==
    /\ r.thrown /\ r.pc = "done" /\ r.created = 0
    /\ \E c \in 1..Len(r.calls) : r.calls[c].op = "POST issue label" /\ r.calls[c].name = SYNC_LABEL

C20_LaterCommentCreatesThread ==
    \A i, j \in 1..Len(runs) :
        ( /\ i < j
          /\ FailedAtCreate(runs[i])
          /\ runs[j].kind = "issue_comment.created"
          /\ SameIssue(runs[i].ev, runs[j].ev)
          /\ hasSyncLabel(runs[j].ev.issue)
          /\ ~isIgnoredComment(runs[j].ev.comment)
          /\ \A k \in 1..Len(runs) : runs[k].pc = "done" )
        => ThreadsFor(runs[i].ev.issue.number, runs[i].ev.owner, runs[i].ev.repo) # {}

(***************************************************************************)
(* SpecMirror: both directions of creation with their echoes.  A person    *)
(* opens issue 1 in the tracker and the stepwise issue-opened handler      *)
(* makes a thread for it; a person opens a thread in the forum and the     *)
(* new-thread handler makes an issue for it.  The gateway reports every    *)
(* thread of the forum once as created, the bridge's own included, and the *)
(* tracker delivers issues.opened for every issue, the bridge's own        *)
(* included.                                                               *)
(***************************************************************************)
\* Events.ThreadCreate for thread t, which the gateway emits once per thread
ThreadCreatedOnce(t) ==
    /\ \A i \in 1..Len(runs) : ~(runs[i].kind = "thread" /\ runs[i].thread = t)
    /\ ThreadCreated(t)

InitMirror ==
    /\ NoParse /\ NoFinds /\ NoCache
    /\ \E a \in { <<>>, <<2>>, <<1, 2>>, <<7>>, <<2, 8, 10>>, <<UnknownTagId, 3>> } :
          threads = <<HumanThread(a)>>
    /\ availableTags = ForumTags \o <<Tag(8, SYNC_LABEL, NoEmoji), Tag(10, "App", NoEmoji)>>
    /\ archPages = HonestPages
    /\ gh = InitTracker
    /\ lastInstallationId = InstallationId
    /\ runs = <<>>
    /\ inbox \in { {}, {OpenedEvent(InstallationId, <<>>)},
                   {OpenedEvent(InstallationId, <<"Bug">>)} }

NextMirror ==
    \/ \E e \in inbox : Deliver(e)
    \/ \E i \in 1..Len(runs) : Step(i)
    \/ \E t \in 1..Len(threads) : ThreadCreatedOnce(t)

SpecMirror == InitMirror /\ [][NextMirror]_vars

(***************************************************************************)
(* C21: creation is never mirrored back.  The new-thread handler makes no  *)
(* request for a thread the bridge created for a tracker issue (starter    *)
(* message by the bot, beginning with the sync marker), and the            *)
(* issue-opened handler makes no request and no thread for an issue the    *)
(* bridge created from a chat thread (created carrying the sync label).    *)
(***************************************************************************)
\* thread t was made by createDiscordThread in some handler run
BridgeMadeThread(t) == \E j \in 1..Len(runs) : runs[j].created = t

\* the issue of event e was made by handleNewThread
BridgeMadeIssue(e) ==
    \E c \in 1..Len(gh.created) :
        /\ gh.created[c].owner = e.owner /\ gh.created[c].repo = e.repo
        /\ gh.created[c].number = e.issue.number

C21_NoMirroredCreation ==
    /\ \A i \in 1..Len(runs) :
          (runs[i].kind = "thread" /\ BridgeMadeThread(runs[i].thread))
          => runs[i].calls = <<>> /\ ~runs[i].thrown
    /\ \A i \in 1..Len(runs) :
          (runs[i].kind = "issues.opened" /\ BridgeMadeIssue(runs[i].ev))
          => runs[i].calls = <<>> /\ runs[i].created = 0 /\ runs[i].pc = "done"
    /\ Len(gh.created) <= 1
    /\ Cardinality({ t \in 1..Len(threads) : threads[t].starterBot })
          <= Cardinality({ i \in 1..Len(runs) : runs[i].kind = "issues.opened"
                                               /\ ~BridgeMadeIssue(runs[i].ev) })

\* the issue made from a person's thread comes back as issues.opened and the
\* handler has finished with it
C21_Witness ==
    \E i, j \in 1..Len(runs) :
        /\ i < j
        /\ runs[i].kind = "thread" /\ ~BridgeMadeThread(runs[i].thread)
        /\ Len(gh.created) = 1
        /\ runs[j].kind = "issues.opened" /\ BridgeMadeIssue(runs[j].ev)
        /\ hasSyncLabel(runs[j].ev.issue)
        /\ runs[j].pc = "done"

(***************************************************************************)
(* SpecPaging: the two pagination loops, one request per step, against an  *)
(* upstream that answers each request as it likes.                         *)
(*   archived threads   findThreadsForIssue       utils.js 756-787         *)
(*   repositories       listInstallationRepos     utils.js 1048-1066       *)
(***************************************************************************)
PerPage == 2       \* stands for limit: 100 and per_page: 100
LoopCap == 4       \* counts above LoopCap are kept as LoopCap

\* The loops' tests read hasMore, the size of the page and, for repositories,
\* repos.length >= total_count with total_count <= LoopCap: keeping a larger
\* count as LoopCap changes no test.  turn is the parity of the number of requests
\* made: with it every request is a step, also once the counts are at LoopCap.
Capped(n) == IF n > LoopCap THEN LoopCap ELSE n

ArchivedLoop ==
    [kind |-> "fetchArchived", pc |-> "loop", hasMore |-> TRUE, before |-> 0,
     archivedPages |-> 0, count |-> 0, page |-> 0, turn |-> 0]

ReposLoop ==
    [kind |-> "listInstallationRepos", pc |-> "loop", hasMore |-> TRUE, before |-> 0,
     archivedPages |-> 0, count |-> 0, page |-> 1, turn |-> 0]

\* what forum.threads.fetchArchived({before, limit}) can answer
ArchivedAnswers ==
    { [kind |-> "throws", size |-> 0, hasMore |-> FALSE, last |-> 0] }
    \cup { [kind |-> "threads", size |-> n, hasMore |-> h, last |-> l] :
             n \in 0..PerPage, h \in BOOLEAN, l \in 1..2 }

\* what GET /installation/repositories can answer; total_count 0 is a missing one
ReposAnswers ==
    { [kind |-> "throws", size |-> 0, total_count |-> 0] }
    \cup { [kind |-> "repositories", size |-> n, total_count |-> c] :
             n \in 0..PerPage, c \in 0..LoopCap }

\* one turn of while (hasMore) { try { ... } catch { break } }
FetchArchivedPage(i) ==
    LET r == runs[i] IN
    /\ r.kind = "fetchArchived" /\ r.pc = "loop" /\ r.hasMore
    /\ \E archived \in ArchivedAnswers :
         runs' = [runs EXCEPT ![i] =
            IF archived.kind = "throws" THEN [r EXCEPT !.pc = "done"]
            ELSE [r EXCEPT
                    !.count = Capped(@ + archived.size),
                    !.hasMore = NextHasMore(archived.hasMore, archived.size),
                    !.archivedPages = Capped(@ + 1),
                    !.before = IF archived.size > 0 THEN archived.last ELSE @,
                    !.turn = 1 - @,
                    !.pc = IF NextHasMore(archived.hasMore, archived.size)
                           THEN "loop" ELSE "done"]]
    /\ UNCHANGED <<parseVars, chatVars, cacheVars, findVars, gh, lastInstallationId, inbox>>

\* one turn of while (true) { ...; if (pageRepos.length < perPage) break;
\* if (data.total_count && repos.length >= data.total_count) break; page += 1 }
ListReposPage(i) ==
    LET r == runs[i] IN
    /\ r.kind = "listInstallationRepos" /\ r.pc = "loop"
    /\ \E data \in ReposAnswers :
         runs' = [runs EXCEPT ![i] =
            IF data.kind = "throws" THEN [r EXCEPT !.pc = "done"]
            ELSE IF data.size < PerPage
                 THEN [r EXCEPT !.count = Capped(@ + data.size), !.pc = "done"]
            ELSE IF data.total_count # 0 /\ Capped(r.count + data.size) >= data.total_count
                 THEN [r EXCEPT !.count = Capped(@ + data.size), !.pc = "done"]
            ELSE [r EXCEPT !.count = Capped(@ + data.size), !.page = Capped(@ + 1),
                           !.turn = 1 - @]]
    /\ UNCHANGED <<parseVars, chatVars, cacheVars, findVars, gh, lastInstallationId, inbox>>

InitPaging ==
    /\ NoParse /\ NoChat /\ NoCache /\ NoFinds
    /\ gh = NoIssues /\ lastInstallationId = 0 /\ inbox = {}
    /\ runs = <<ArchivedLoop, ReposLoop>>

NextPaging ==
    \/ \E i \in 1..Len(runs) : FetchArchivedPage(i)
    \/ \E i \in 1..Len(runs) : ListReposPage(i)

SpecPaging == InitPaging /\ [][NextPaging]_vars

\* every request is answered and the loop goes on with the answer
SpecPagingLive ==
    SpecPaging /\ \A i \in 1..2 : WF_vars(FetchArchivedPage(i)) /\ WF_vars(ListReposPage(i))

(***************************************************************************)
(* C22: both pagination loops terminate against every upstream behaviour,  *)
(* an upstream that returns a full, non-empty page and reports further     *)
(* pages on every request included: each loop eventually ends.             *)
(***************************************************************************)
C22_LoopsTerminate ==
    \A i \in 1..2 : <>(runs[i].pc = "done")

(***************************************************************************)
(* C23: when fetching the pinned messages of a candidate times out or      *)
(* fails, the candidate is skipped and the remaining candidates are still  *)
(* examined: the first later candidate with a matching pinned message is   *)
(* returned, and the search ends with a result (possibly empty) instead of *)
(* an error.                                                               *)
(***************************************************************************)
\* the candidate at position j of the scan could not deliver its pins, and no
\* candidate before it matched
SkippedAt(j) ==
    /\ threads[SearchOrder[j]].pinFetch \in {"timeout", "error"}
    /\ \A k \in 1..(j - 1) : ~Matches(SearchOrder[k])

LaterMatches(j) == { k \in (j + 1)..Len(SearchOrder) : Matches(SearchOrder[k]) }

C23_SkipOnTimeout ==
    Searched =>
        \A j \in 1..Len(SearchOrder) :
            SkippedAt(j) =>
                /\ j <= lastFind.pinFetches
                /\ ~Returned(SearchOrder[j])
                /\ LaterMatches(j) # {} =>
                      \E k \in LaterMatches(j) :
                          /\ \A x \in LaterMatches(j) : k <= x
                          /\ lastFind.threads = <<SearchOrder[k]>>
                          /\ lastFind.pinFetches = k
                /\ LaterMatches(j) = {} =>
                      /\ lastFind.threads = <<>>
                      /\ lastFind.pinFetches = Len(SearchOrder)

\* the first candidate's pin fetch times out, the second carries the marker of the
\* queried issue and is returned
C23_Witness ==
    /\ Searched
    /\ Len(SearchOrder) = 2
    /\ threads[SearchOrder[1]].pinFetch = "timeout"
    /\ threads[SearchOrder[1]].pinned = <<SyncMarker(1, "acme", "app")>>
    /\ Matches(SearchOrder[2])
    /\ lastFind.threads = <<SearchOrder[2]>>
    /\ lastFind.pinFetches = 2

(***************************************************************************)
(* SpecFilter: findThreadsForIssue on forums whose threads carry, or do    *)
(* not carry, a repository-selector tag: the tag of the repository written *)
(* with a capital, a plain tag with the repository's name, the selector    *)
(* tag of another repository.                                              *)
(***************************************************************************)
FilterTags ==
    <<Tag(1, "App", REPO_TAG_EMOJI), Tag(2, "app", NoEmoji), Tag(3, "lib", REPO_TAG_EMOJI)>>

FilterThread(name, archived, appliedTags, synced) ==
    Thread(name, ForumId, "live", archived, appliedTags,
           IF synced THEN <<SyncMarker(1, "acme", "app")>> ELSE <<Text>>, "ok")

FilterForums ==
    { <<>> } \cup
    { << FilterThread(<<"other">>, FALSE, t1, s1), FilterThread(<<"Crash">>, FALSE, t2, s2),
         FilterThread(<<"old">>, TRUE, t3, s3) >> :
        t1 \in { <<>>, <<1>>, <<2>>, <<3>> }, t2 \in { <<>>, <<1>>, <<2>> },
        t3 \in { <<>>, <<1>> }, s1 \in BOOLEAN, s2 \in BOOLEAN, s3 \in BOOLEAN }

InitFilter ==
    /\ NoParse /\ NoFinds /\ NoCache /\ NoTracker
    /\ threads \in FilterForums
    /\ availableTags = FilterTags
    /\ archPages = HonestPages

NextFilter == Find

SpecFilter == InitFilter /\ [][NextFilter]_vars

(***************************************************************************)
(* C24: the repository pre-filter never filters to zero.  The candidates   *)
(* are the enumerated threads that carry a repository-selector tag         *)
(* (selector emoji, name equal to the requested repository without regard  *)
(* to case) when there is one, and all enumerated threads otherwise; they  *)
(* are empty only when the enumeration is empty.  Threads outside the      *)
(* candidates are never fetched or returned.                               *)
(***************************************************************************)
Enumerated == { t \in 1..Len(threads) : InForum(threads[t]) }

SelectorTagIds ==
    IF lastFind.repo = Null THEN {}
    ELSE { availableTags[i].id : i \in { j \in 1..Len(availableTags) :
              /\ getTagEmojiName(availableTags[j]) = REPO_TAG_EMOJI
              /\ Lower(availableTags[j].name) = Lower(lastFind.repo) } }

CarriesSelector(t) ==
    \E x \in 1..Len(threads[t].appliedTags) : threads[t].appliedTags[x] \in SelectorTagIds

ExpectedCandidates ==
    IF \E t \in Enumerated : CarriesSelector(t)
    THEN { t \in Enumerated : CarriesSelector(t) }
    ELSE Enumerated

C24_NeverFilterToZero ==
    Searched =>
        /\ SeqToSet(CandidateThreads(threads, availableTags,
                                     EnumerateThreads(threads, archPages).all, lastFind.repo))
              = ExpectedCandidates
        /\ ExpectedCandidates = {} <=> Enumerated = {}
        /\ \A t \in 1..Len(threads) : Returned(t) => t \in ExpectedCandidates
        /\ lastFind.pinFetches <= Cardinality(ExpectedCandidates)
        /\ (\E t \in ExpectedCandidates : Matches(t)) <=> lastFind.threads # <<>>
        /\ lastFind.threads = <<>> => lastFind.pinFetches = Cardinality(ExpectedCandidates)

\* "app" is asked for: thread 1 carries the selector tag "App" and no marker, thread 2
\* carries the plain tag "app" and the marker of the issue; only thread 1 is a
\* candidate, and nothing is returned
C24_Witness ==
    /\ Searched
    /\ lastFind.issueNumber = 1 /\ lastFind.repo = "app"
    /\ Len(threads) = 3
    /\ threads[1].appliedTags = <<1>> /\ ~Matches(1)
    /\ threads[2].appliedTags = <<2>> /\ Matches(2)
    /\ threads[3].appliedTags = <<>>
    /\ ExpectedCandidates = {1}
    /\ lastFind.threads = <<>>
    /\ lastFind.pinFetches = 1

(***************************************************************************)
(* C25: the new-thread handler creates the issue in the repository named   *)
(* by a repository-selector tag applied to the thread, and in the default  *)
(* repository only when the thread carries no repository-selector tag.     *)
(***************************************************************************)
\* the repository-selector tags thread-created run r found on its thread
SelectorTagsOf(r) ==
    { availableTags[k] : k \in { j \in 1..Len(availableTags) :
          /\ isRepoSelectorTag(availableTags[j])
          /\ \E x \in 1..Len(r.tagsBefore) : r.tagsBefore[x] = availableTags[j].id } }

C25_RepoFromSelectorTag ==
    \A i \in 1..Len(runs) :
        runs[i].kind = "thread" =>
            \A c \in 1..Len(runs[i].calls) :
                runs[i].calls[c].op = "POST issue" =>
                    IF SelectorTagsOf(runs[i]) = {}
                    THEN <<runs[i].calls[c].owner, runs[i].calls[c].repo>> = DefaultRepo
                    ELSE \E tag \in SelectorTagsOf(runs[i]) :
                            Lower(runs[i].calls[c].repo) = Lower(tag.name)

(***************************************************************************)
(* C26: for a thread a person created in the forum, the new-thread handler *)
(* ensures the tracker labels for the sync marker and for every applied    *)
(* tag that is not structural before it creates the issue, creates exactly *)
(* one issue, titled like the thread and labelled with the sync marker     *)
(* plus those tag names, and only after that sends and pins exactly one    *)
(* sync-marker message, which names the created issue.                     *)
(***************************************************************************)
\* a thread-created run on a person's thread that went through
HumanThreadRun(r) ==
    /\ r.kind = "thread" /\ ~r.thrown
    /\ ~threads[r.thread].starterBot
    /\ threads[r.thread].parentId = ForumId

CallPositions(r, ops) == { c \in 1..Len(r.calls) : r.calls[c].op \in ops }

\* the names of the tags of run r's thread that are no repository selector, not the
\* sync marker and not the name of repository repo
PlainTagNames(r, repo) ==
    { availableTags[k].name : k \in { j \in 1..Len(availableTags) :
          /\ \E x \in 1..Len(r.tagsBefore) : r.tagsBefore[x] = availableTags[j].id
          /\ getTagEmojiName(availableTags[j]) # REPO_TAG_EMOJI
          /\ availableTags[j].name # SYNC_LABEL
          /\ Lower(availableTags[j].name) # Lower(repo) } }

C26_IssueFromThread ==
    \A i \in 1..Len(runs) :
        HumanThreadRun(runs[i]) =>
            LET r == runs[i]
                posts == CallPositions(r, {"POST issue"})
            IN
            /\ Cardinality(posts) = 1
            /\ \A p \in posts :
                 LET issue == r.calls[p]
                     wanted == {SYNC_LABEL} \cup PlainTagNames(r, issue.repo)
                 IN
                 \* the labels are ensured first, each in the issue's repository
                 /\ \A n \in wanted :
                       \E c \in CallPositions(r, {"GET label"}) : c < p /\ r.calls[c].name = n
                 /\ \A c \in CallPositions(r, {"GET label", "POST label"}) :
                       /\ c < p
                       /\ r.calls[c].name \in wanted
                       /\ r.calls[c].owner = issue.owner /\ r.calls[c].repo = issue.repo
                 /\ \A n \in wanted :
                       n \in gh.repoLabels[<<issue.owner, issue.repo>>]
                 \* the one issue
                 /\ \E k \in 1..Len(gh.created) :
                       /\ gh.created[k].number = issue.number
                       /\ gh.created[k].owner = issue.owner /\ gh.created[k].repo = issue.repo
                       /\ gh.created[k].title = threads[r.thread].name
                       /\ SeqToSet(gh.created[k].labels) = wanted
                       /\ Len(gh.created[k].labels) = Cardinality(wanted)
                 \* then the marker message, sent once and pinned
                 /\ \E s \in 1..Len(r.calls) :
                       /\ CallPositions(r, {"send"}) = {s} /\ CallPositions(r, {"pin"}) = {s + 1}
                       /\ p < s
                       /\ r.calls[s].number = r.thread /\ r.calls[s + 1].number = r.thread
                 /\ threads[r.thread].pinned
                       = <<SyncMarker(issue.number, issue.owner, issue.repo)>>
                 /\ Cardinality({ m \in 1..Len(threads[r.thread].sent) :
                        threads[r.thread].sent[m].description
                           = SyncMarker(issue.number, issue.owner, issue.repo) }) = 1

\* a person's thread with the tags Bug, "synced" and "App": the labels synced and Bug
\* are ensured, the issue is created in acme/app with them, the marker is pinned
C26_Witness ==
    \E i \in 1..Len(runs) :
        /\ HumanThreadRun(runs[i])
        /\ runs[i].tagsBefore = <<2, 8, 10>>
        /\ Len(gh.created) = 1
        /\ gh.created[1].labels = <<SYNC_LABEL, "Bug">>
        /\ gh.created[1].title = <<"Crash">>
        /\ threads[runs[i].thread].pinned = <<SyncMarker(gh.created[1].number, "acme", "app")>>

(***************************************************************************)
(* SpecMessages: people and the bot write in a thread that pins markers    *)
(* for one issue, for two issues, twice for the same issue, or none; the   *)
(* last comment of acme/app#2 comes from alice's chat message, from a      *)
(* person in the tracker, or the issue has no comment.                     *)
(***************************************************************************)
MessagePins ==
    { <<>>,
      <<SyncMarker(2, "acme", "app")>>,
      <<LegacyMarker(2)>>,
      <<SyncMarker(2, "acme", "app"), SyncMarker(1, "acme", "app")>>,
      <<SyncMarker(2, "acme", "app"), LegacyMarkerWithUrl(2, "acme", "app")>> }

IssueTwoComments ==
    { <<>>,
      <<TrackerComment("bridge[bot]", formatDiscordAuthorComment("alice", Text), TRUE)>>,
      <<TrackerComment("bridge[bot]", formatDiscordAuthorComment("alice", Text), TRUE),
        TrackerComment("carol", Text, FALSE)>> }

InitMessages ==
    /\ NoParse /\ NoFinds /\ NoCache
    /\ \E p \in MessagePins : threads = <<[SyncedThread EXCEPT !.pinned = p]>>
    /\ availableTags = <<RepoTagApp>>
    /\ archPages = HonestPages
    /\ \E cs \in IssueTwoComments :
          gh = [InitTracker EXCEPT !.comments[<<"acme", "app", 2>>] = cs]
    /\ lastInstallationId \in {0, InstallationId}
    /\ runs = <<>>
    /\ inbox = {}

NextMessages == Write

SpecMessages == InitMessages /\ [][NextMessages]_vars

(***************************************************************************)
(* C27 as stated: for a message that is neither the bot's nor the seed, in *)
(* a thread with pinned sync markers, the handler makes for each synced    *)
(* issue exactly one tracker write: an update of the issue's last comment  *)
(* to old body + newline + new content when that comment's declared chat   *)
(* author is the writer, and otherwise one new comment with the            *)
(* attribution header; never both and never neither.                       *)
(***************************************************************************)
KeyOf(ref) == <<OwnerOf(ref), RepoOf(ref), ref.number>>

\* the issues the pinned messages of thread t name
SyncedKeys(t) ==
    { KeyOf(getSyncedIssueInfo(threads[t].pinned)[x]) :
        x \in 1..Len(getSyncedIssueInfo(threads[t].pinned)) }

\* how many pinned entries of thread t name the issue
EntriesFor(t, key) ==
    Cardinality({ x \in 1..Len(getSyncedIssueInfo(threads[t].pinned)) :
                    KeyOf(getSyncedIssueInfo(threads[t].pinned)[x]) = key })

WritesOn(r, key, ops) ==
    { c \in 1..Len(r.calls) :
        /\ r.calls[c].op \in ops
        /\ <<r.calls[c].owner, r.calls[c].repo, r.calls[c].number>> = key }

\* the last comment of the issue declares the writer as its chat author
DeclaredAuthor(key, username) ==
    /\ gh.comments[key] # <<>>
    /\ extractDiscordUsername(gh.comments[key][Len(gh.comments[key])].body) = username

RECURSIVE Extended(_, _, _)
\* body, then n times a line break and the content
Extended(body, content, n) ==
    IF n = 0 THEN body
    ELSE Extended(body \o <<Tok("nl", 0, "", "")>> \o content, content, n - 1)

\* thread t receives msg, which the handler has to mirror
Mirrored(t, msg, appLogin) ==
    /\ NewMessage(t, msg, appLogin)
    /\ ~msg.bot /\ ~msg.isStarter
    /\ threads[t].parentId = ForumId
    /\ lastInstallationId # 0

\* the comments of the issue after the handler wrote n times on it
CommentsAfter(key, msg, n) ==
    LET old == gh.comments[key]
        new == gh.comments[key]'
    IN  IF DeclaredAuthor(key, msg.username)
        THEN /\ Len(new) = Len(old)
             /\ \A x \in 1..(Len(old) - 1) : new[x] = old[x]
             /\ new[Len(new)].body = Extended(old[Len(old)].body, msg.content, n)
        ELSE /\ Len(new) = Len(old) + 1
             /\ \A x \in 1..Len(old) : new[x] = old[x]
             /\ new[Len(new)].body =
                   Extended(formatDiscordAuthorComment(msg.username, msg.content),
                            msg.content, n - 1)

C27_OneWritePerIssue ==
    [][\A t \in 1..Len(threads), msg \in ChatMessages, appLogin \in AppLogins :
          Mirrored(t, msg, appLogin) =>
             \A key \in SyncedKeys(t) :
                LET r == runs'[Len(runs')] IN
                /\ Cardinality(WritesOn(r, key, {"PATCH comment", "POST comment"})) = 1
                /\ Cardinality(WritesOn(r, key, {"PATCH comment"}))
                      = IF DeclaredAuthor(key, msg.username) THEN 1 ELSE 0
                /\ CommentsAfter(key, msg, 1)]_vars

(***************************************************************************)
(* C27 as the handler behaves: one tracker write for each pinned sync      *)
(* entry, in the order of the pins.  The first write on an issue is the    *)
(* update of its last comment when that comment's declared chat author is  *)
(* the writer, and a new comment with the attribution header otherwise;    *)
(* each further entry naming the same issue appends the content once more  *)
(* to that comment.  A request never goes to an issue that is not pinned.  *)
(***************************************************************************)
C27_OneWritePerEntry ==
    [][\A t \in 1..Len(threads), msg \in ChatMessages, appLogin \in AppLogins :
          Mirrored(t, msg, appLogin) =>
             LET r == runs'[Len(runs')] IN
             /\ ~r.thrown
             /\ \A key \in SyncedKeys(t) :
                   /\ Cardinality(WritesOn(r, key, {"PATCH comment", "POST comment"}))
                         = EntriesFor(t, key)
                   /\ Cardinality(WritesOn(r, key, {"POST comment"}))
                         = IF DeclaredAuthor(key, msg.username) THEN 0 ELSE 1
                   /\ \A c \in WritesOn(r, key, {"POST comment"}) :
                         \A d \in WritesOn(r, key, {"PATCH comment"}) : c < d
                   /\ CommentsAfter(key, msg, EntriesFor(t, key))
             /\ \A key \in DOMAIN gh.comments \ SyncedKeys(t) :
                   /\ WritesOn(r, key, {"PATCH comment", "POST comment"}) = {}
                   /\ gh.comments[key]' = gh.comments[key]]_vars

\* alice writes in a thread that pins acme/app#2, whose last comment is hers, and
\* acme/app#1, which has none: her words are appended on #2 and posted on #1
C27_Witness ==
    \E i \in 1..Len(runs) :
        /\ runs[i].kind = "message" /\ runs[i].ev.comment.login = "alice"
        /\ threads[runs[i].thread].pinned
              = <<SyncMarker(2, "acme", "app"), SyncMarker(1, "acme", "app")>>
        /\ Cardinality(WritesOn(runs[i], <<"acme", "app", 2>>, {"PATCH comment"})) = 1
        /\ Cardinality(WritesOn(runs[i], <<"acme", "app", 1>>, {"POST comment"})) = 1
        /\ gh.comments[<<"acme", "app", 2>>][1].body
              = formatDiscordAuthorComment("alice", Text) \o <<Tok("nl", 0, "", "")>> \o Text
        /\ gh.comments[<<"acme", "app", 1>>][1].body = formatDiscordAuthorComment("alice", Text)

(***************************************************************************)
(* SpecLifecycle: the issue of a thread is closed, reopened, labeled and   *)
(* unlabeled any number of times, one delivery after another               *)
(* (part_001 716-838, 885-1008). Only the last run is kept, with the       *)
(* threads and the forum tags as they were before it, so that the cycle is *)
(* bounded by the notices a thread may hold and by nothing else.           *)
(***************************************************************************)
MaxNotices == 3     \* status notices a thread may hold

UiTag == Tag(3, "ui", NoEmoji)

\* forums without a closed tag, with one, with one under the legacy name, with one
\* that lacks its emoji, with room for one more tag, and full
LifecycleForums ==
    { <<RepoTagApp, BugTag, UiTag>>,
      <<RepoTagApp, BugTag, UiTag, ClosedForumTag>>,
      <<RepoTagApp, BugTag, UiTag, Tag(4, CLOSED_TAG_LEGACY_NAME, NoEmoji)>>,
      <<RepoTagApp, BugTag, UiTag, Tag(4, "Closed", NoEmoji)>>,
      <<RepoTagApp, BugTag, UiTag, Tag(5, "p1", NoEmoji), Tag(6, "p2", NoEmoji)>>,
      Forum(ForumTagLimit - 1, TRUE, NoEmoji),
      Forum(ForumTagLimit, TRUE, NoEmoji) }

\* the tags a thread starts with
LifecycleApplied == { <<1>>, <<1, 2, 3, 5>>, <<1, 2, 3, 5, 6>>, <<1, 4>> }

\* one mirror of acme/app#1, two of them, or a thread nobody synced
LifecycleThreads(a) ==
    { <<MirrorThread(a)>>, <<MirrorThread(a), MirrorThread(<<1>>)>>, <<HumanThread(a)>> }

InitLifecycle ==
    /\ NoParse /\ NoFinds /\ NoCache
    /\ availableTags \in LifecycleForums
    /\ \E a \in LifecycleApplied :
          /\ \A i \in 1..Len(a) : \E j \in 1..Len(availableTags) : availableTags[j].id = a[i]
          /\ threads \in LifecycleThreads(a)
    /\ archPages = HonestPages
    /\ gh = [InitTracker EXCEPT !.labels[<<"acme", "app", 1>>] = {SYNC_LABEL}]
    /\ lastInstallationId = InstallationId
    /\ runs = <<>>
    /\ inbox = {}

\* webhooks.on("issues.closed" | "issues.reopened" | "issues.labeled" |
\* "issues.unlabeled", ...): the whole handler
Lifecycle(e) ==
    /\ \A t \in 1..Len(threads) : Len(threads[t].sent) < MaxNotices
    /\ \E out \in { CASE e.type = "issues.closed" ->
                          handleIssueClosed(threads, availableTags, threadCache, archPages, e)
                      [] e.type = "issues.reopened" ->
                          handleIssueReopened(threads, availableTags, threadCache, archPages, e)
                      [] e.type = "issues.labeled" ->
                          handleIssueLabeled(threads, availableTags, threadCache, archPages, e)
                      [] OTHER ->
                          handleIssueUnlabeled(threads, availableTags, threadCache, archPages, e) } :
       \E t \in { IF out.found = <<>> THEN 0 ELSE out.found[1] } :
        /\ threads' = out.ths
        /\ availableTags' = out.tags
        /\ threadCache' = out.cache
        /\ threadCacheSaveTimer' = IF out.cacheWritten
                                   THEN scheduleThreadCacheSave(threadCacheSaveTimer)
                                   ELSE threadCacheSaveTimer
        /\ lastInstallationId' = e.installation
        /\ runs' = << FinishedRun(e.type, e, out, t,
                                  IF t = 0 THEN <<>> ELSE threads[t].appliedTags,
                                  IF t = 0 THEN <<>> ELSE out.ths[t].appliedTags)
                       @@ [before |-> ChatState(threads, availableTags, <<>>)] >>
        /\ UNCHANGED <<parseVars, archPages, cacheFile, cacheIo, findVars, gh, inbox>>

LifecycleLabels == { "bug", "new", SYNC_LABEL, "app", CLOSED_TAG_NAME }

OnIssueClosed    == Lifecycle(StatusEvent("issues.closed", ""))
OnIssueReopened  == Lifecycle(StatusEvent("issues.reopened", ""))
OnIssueLabeled   == \E name \in LifecycleLabels : Lifecycle(StatusEvent("issues.labeled", name))
OnIssueUnlabeled == \E name \in LifecycleLabels : Lifecycle(StatusEvent("issues.unlabeled", name))

NextLifecycle == OnIssueClosed \/ OnIssueReopened \/ OnIssueLabeled \/ OnIssueUnlabeled

SpecLifecycle == InitLifecycle /\ [][NextLifecycle]_vars

\* the last delivery handled was event e: every step of the specification leaves
\* the run of the event it handled as the only run
Delivered(e) == runs # <<>> /\ runs[1].ev = e /\ runs[1].kind = e.type

\* thread t as the step leaves it carries the forum's closed tag
CarriesClosedTag(ths, tags, t) ==
    /\ findClosedForumTag(tags) # NoTag
    /\ SeqContains(ths[t].appliedTags, findClosedForumTag(tags).id)

\* the forum has a closed tag or room to create one
ClosedTagObtainable(tags) ==
    findClosedForumTag(tags) # NoTag \/ Len(tags) < ForumTagLimit

\* what a closed or reopened delivery does to the threads; needsTag says whether
\* the closed tag is only expected where the forum could provide one
CycleEffect(type, needsTag) ==
    LET located == SeqToSet(runs[1].found)
        notice  == IF type = "issues.closed" THEN CloseEmbed ELSE ReopenEmbed
    IN  /\ Len(threads) = Len(runs[1].before.ths)
        /\ \A t \in 1..Len(runs[1].before.ths) :
              /\ threads[t].archived = runs[1].before.ths[t].archived
              /\ threads[t].status = runs[1].before.ths[t].status
              /\ IF t \in located
                 THEN /\ threads[t].sent = Append(runs[1].before.ths[t].sent, notice)
                      /\ Len(SelectSeq(runs[1].calls,
                                       LAMBDA c : c = ChatCall("send", t))) = 1
                      /\ (/\ type = "issues.closed"
                          /\ Len(runs[1].before.ths[t].appliedTags) < ThreadTagLimit
                          /\ needsTag => ClosedTagObtainable(runs[1].before.tags))
                         => CarriesClosedTag(threads, availableTags, t)
                      /\ type = "issues.reopened"
                         => ~CarriesClosedTag(threads, availableTags, t)
                 ELSE threads[t] = runs[1].before.ths[t]

\* C28 as stated: after a closed or reopened delivery every located thread got
\* exactly one notice for it and carries the closed tag iff the event was
\* "closed" (given fewer than 5 tags when the tag was to be added); no thread is
\* archived or deleted
C28_StatusCycle ==
    \A type \in {"issues.closed", "issues.reopened"} :
        Delivered(StatusEvent(type, "")) => CycleEffect(type, FALSE)

\* C28 amended: the same, where the forum had a closed tag or fewer than 20 tags
\* when the tag was to be added
C28_StatusCycleWithinLimits ==
    \A type \in {"issues.closed", "issues.reopened"} :
        Delivered(StatusEvent(type, "")) => CycleEffect(type, TRUE)

\* closed, reopened and closed again: three notices, and the tag is back
C28_Witness ==
    \E t \in 1..Len(threads) :
        /\ threads[t].sent = <<CloseEmbed, ReopenEmbed, CloseEmbed>>
        /\ CarriesClosedTag(threads, availableTags, t)
        /\ runs # <<>> /\ runs[1].kind = "issues.closed" /\ t \in SeqToSet(runs[1].found)

\* the last delivery changed nothing of the chat platform
NoChatMutation == threads = runs[1].before.ths /\ availableTags = runs[1].before.tags

\* what a labeled delivery for a non-structural label does; withinLimit says whether
\* the forum tag is only expected where the forum has it or has room for it
LabeledEffect(e, withinLimit) ==
    LET located  == SeqToSet(runs[1].found)
        had      == FindTagByName(runs[1].before.tags, e.label) # NoTag
        forumTag == FindTagByName(availableTags, e.label)
    IN  IF withinLimit /\ ~had /\ Len(runs[1].before.tags) >= ForumTagLimit
        THEN NoChatMutation
        ELSE /\ forumTag # NoTag
             /\ availableTags = IF had THEN runs[1].before.tags
                                 ELSE Append(runs[1].before.tags, forumTag)
             /\ Len(threads) = Len(runs[1].before.ths)
             /\ \A t \in 1..Len(runs[1].before.ths) :
                   threads[t] =
                       IF /\ t \in located
                          /\ Len(runs[1].before.ths[t].appliedTags) < ThreadTagLimit
                          /\ ~SeqContains(runs[1].before.ths[t].appliedTags, forumTag.id)
                       THEN [runs[1].before.ths[t] EXCEPT !.appliedTags = Append(@, forumTag.id)]
                       ELSE runs[1].before.ths[t]

\* what an unlabeled delivery for a non-structural label does
UnlabeledEffect(e) ==
    LET located  == SeqToSet(runs[1].found)
        forumTag == FindTagByName(runs[1].before.tags, e.label)
    IN  /\ availableTags = runs[1].before.tags
        /\ Len(threads) = Len(runs[1].before.ths)
        /\ \A t \in 1..Len(runs[1].before.ths) :
              threads[t] =
                  IF t \in located /\ forumTag # NoTag
                  THEN [runs[1].before.ths[t] EXCEPT !.appliedTags =
                            SelectSeq2(@, SeqToSet(@) \ {forumTag.id})]
                  ELSE runs[1].before.ths[t]

LabelFrame(withinLimit) ==
    \A type \in {"issues.labeled", "issues.unlabeled"}, name \in LifecycleLabels :
        LET e == StatusEvent(type, name)
        IN  Delivered(e) =>
                IF StructuralLabel(e) \/ runs[1].found = <<>>
                THEN NoChatMutation
                ELSE IF type = "issues.labeled" THEN LabeledEffect(e, withinLimit)
                ELSE UnlabeledEffect(e)

\* C29 as stated: a labeled delivery for a non-structural label adds the forum tag
\* for the label, created if absent, to each located thread that holds fewer than 5
\* tags; an unlabeled delivery takes exactly that tag id off; nothing else of a
\* thread changes; without a located thread or for the sync marker, the repository
\* name or the closed-state name nothing of the chat changes
C29_LabelFrame == LabelFrame(FALSE)

\* C29 amended: the same, where a forum tag that is absent is created only while
\* the forum holds fewer than 20 tags, and nothing changes otherwise
C29_LabelFrameWithinLimits == LabelFrame(TRUE)

\* a label was added to a located thread for which the forum tag was created, and
\* taken off again
C29_Witness ==
    /\ runs # <<>> /\ runs[1].kind = "issues.unlabeled" /\ runs[1].ev.label = "new"
    /\ runs[1].found # <<>>
    /\ FindTagByName(availableTags, "new") # NoTag
    /\ Len(runs[1].tagsAfter) + 1 = Len(runs[1].tagsBefore)
    /\ ~SeqContains(threads[runs[1].found[1]].appliedTags, FindTagByName(availableTags, "new").id)

(***************************************************************************)
(* SpecEdited: issue-edited events. handleIssueEdited (part_001 840-883)   *)
(* is exported by the payload processor (part_001 1117); the bot server    *)
(* requires eight handlers without it (utils.js 1000-1009) and registers   *)
(* eight event names (utils.js 1149-1158).                                 *)
(***************************************************************************)
\* the event names setupWebhooks registers a handler for
RegisteredEvents ==
    { "issues.opened", "issues.closed", "issues.reopened", "issues.labeled",
      "issues.unlabeled", "issues.milestoned", "issues.assigned",
      "issue_comment.created" }

\* payload.changes.title.from of an edit: the former title, or <<>> when the edit
\* changed something else
EditedEvent(title, from) ==
    Event("issues.edited", "acme", "app", InstallationId,
          Issue(1, title, <<SYNC_LABEL>>), NoComment) @@ [changes |-> [titleFrom |-> from]]

RECURSIVE RenameThreads(_, _, _)
\* for (const thread of threads): setName and setThreadCacheEntry when the name
\* differs from issue.title (865-880); cs carries the cache as well
RenameThreads(cs, found, e) ==
    IF found = <<>> THEN cs
    ELSE LET t == Head(found)
         IN  RenameThreads(
                 IF cs.ths[t].name = e.issue.title THEN cs
                 ELSE [ths   |-> [cs.ths EXCEPT ![t].name = e.issue.title],
                       tags  |-> cs.tags,
                       calls |-> cs.calls \o <<ChatCall("setName", t)>>,
                       cache |-> setThreadCacheEntry(cs.cache, e.owner, e.repo,
                                                     e.issue.number,
                                                     CacheEntry(t, e.issue.title)),
                       cacheWritten |-> TRUE],
                 Tail(found), e)

handleIssueEdited(ths, tags, cache, pages, e) ==
    LET Renamed(f, cs) ==
            Outcome(cs.ths, cs.tags, cs.cache, cs.cacheWritten, cs.calls, f.threads)
        Located(f) ==
            Renamed(f, RenameThreads([ths |-> ths, tags |-> tags, calls |-> <<>>,
                                      cache |-> f.cache, cacheWritten |-> f.cacheWritten],
                                     f.threads, e))
    IN  IF e.changes.titleFrom = <<>>
        THEN Outcome(ths, tags, cache, FALSE, <<>>, <<>>)
        ELSE Located(findThreadsForIssue(ths, tags, cache, pages, e.issue.number, e.owner,
                                         e.repo, e.issue.title, FALSE))

\* the webhooks emitter calls the handlers registered for the event's name, and
\* none when the name has no handler
Dispatch(ths, tags, cache, pages, e) ==
    IF e.type \notin RegisteredEvents
    THEN Outcome(ths, tags, cache, FALSE, <<>>, <<>>)
    ELSE IF e.type = "issues.closed"
    THEN handleIssueClosed(ths, tags, cache, pages, e)
    ELSE handleIssueReopened(ths, tags, cache, pages, e)

NewTitles == { <<"startup">>, <<"Crash", "!">> }

InitEdited ==
    /\ NoParse /\ NoFinds
    /\ availableTags \in { <<RepoTagApp, BugTag>>, <<RepoTagApp, BugTag, ClosedForumTag>> }
    /\ threads \in { <<MirrorThread(<<1>>)>>,
                     <<MirrorThread(<<1, 2>>), MirrorThread(<<1>>)>>,
                     <<HumanThread(<<1>>)>> }
    /\ threadCache \in { EmptyCache,
                         setThreadCacheEntry(EmptyCache, "acme", "app", 1,
                                             CacheEntry(1, TitleOf(1))) }
    /\ threadCacheSaveTimer = FALSE /\ cacheFile = threadCache /\ Loaded
    /\ archPages = HonestPages
    /\ gh = [InitTracker EXCEPT !.labels[<<"acme", "app", 1>>] = {SYNC_LABEL}]
    /\ lastInstallationId = InstallationId
    /\ runs = <<>>
    /\ inbox = {}

\* somebody edits the issue in the tracker: its title or something else
PersonEditsIssue ==
    /\ inbox = {}
    /\ \E e \in { EditedEvent(title, TitleOf(1)) : title \in NewTitles }
                \cup { EditedEvent(TitleOf(1), <<>>) } :
          inbox' = {e}
    /\ UNCHANGED <<parseVars, chatVars, cacheVars, findVars, gh, lastInstallationId, runs>>

\* somebody closes or reopens the issue in the tracker
PersonChangesState ==
    /\ inbox = {}
    /\ \E type \in {"issues.closed", "issues.reopened"} :
          inbox' = { StatusEvent(type, "") @@ [changes |-> [titleFrom |-> <<>>]] }
    /\ UNCHANGED <<parseVars, chatVars, cacheVars, findVars, gh, lastInstallationId, runs>>

\* the webhook middleware receives a delivery: the whole of wrapHandler and the
\* handler when one is registered
ReceiveDelivery ==
    /\ Len(runs) < MaxRuns
    /\ \E e \in inbox :
       \E out \in { Dispatch(threads, availableTags, threadCache, archPages, e) } :
       \E t \in { IF out.found = <<>> THEN 0 ELSE out.found[1] } :
        /\ inbox' = inbox \ {e}
        /\ threads' = out.ths
        /\ availableTags' = out.tags
        /\ threadCache' = out.cache
        /\ threadCacheSaveTimer' = IF out.cacheWritten
                                   THEN scheduleThreadCacheSave(threadCacheSaveTimer)
                                   ELSE threadCacheSaveTimer
        /\ runs' = Append(runs,
                      FinishedRun(e.type, e, out, t,
                                  IF t = 0 THEN <<>> ELSE threads[t].appliedTags,
                                  IF t = 0 THEN <<>> ELSE out.ths[t].appliedTags))
        /\ UNCHANGED <<parseVars, archPages, cacheFile, cacheIo, findVars, gh, lastInstallationId>>

NextEdited == PersonEditsIssue \/ PersonChangesState \/ ReceiveDelivery

SpecEdited == InitEdited /\ [][NextEdited]_vars

\* thread t mirrors acme/app#1
MirrorsIssueOne(t) == threads[t].pinned = <<SyncMarker(1, "acme", "app")>>

\* the last delivery received was this title change
TitleChangeReceived(title) ==
    /\ runs # <<>>
    /\ runs[Len(runs)].kind = "issues.edited"
    /\ runs[Len(runs)].ev.issue.title = title
    /\ runs[Len(runs)].ev.changes.titleFrom # <<>>

\* C30: once an issue-edited delivery with a title change has been received, every
\* thread of the issue bears the new title and the cache entry of the issue has
\* it; an edit without a title change changes nothing of the chat
C30_TitleChangeRenames ==
    \A title \in NewTitles :
        TitleChangeReceived(title) =>
            /\ \A t \in 1..Len(threads) : MirrorsIssueOne(t) => threads[t].name = title
            /\ (\E t \in 1..Len(threads) : MirrorsIssueOne(t))
                  => getThreadCacheEntry(threadCache, "acme", "app", 1).title = title

\* what the exported handler would do with the delivery were it called: every
\* located thread ends with the new title and a renamed thread is in the cache
EditedHandlerRenames ==
    \A e \in inbox :
        e.type = "issues.edited" =>
            LET out == handleIssueEdited(threads, availableTags, threadCache, archPages, e)
            IN  IF e.changes.titleFrom = <<>>
                THEN out.ths = threads /\ out.tags = availableTags
                ELSE /\ \A i \in 1..Len(out.found) : out.ths[out.found[i]].name = e.issue.title
                     /\ \A t \in 1..Len(threads) :
                           MirrorsIssueOne(t) => t \in SeqToSet(out.found) \/ Len(out.found) = 1
                     /\ (\E i \in 1..Len(out.found) : threads[out.found[i]].name # e.issue.title)
                           => getThreadCacheEntry(out.cache, "acme", "app", 1).title
                                  = e.issue.title

(***************************************************************************)
(* SpecCreate: issues.opened deliveries for issues of up to six labels,    *)
(* into forums with and without the repository's tag, the closed tag and   *)
(* room for new tags (createDiscordThread, part_001 484-538).              *)
(***************************************************************************)
CreateForums ==
    { <<RepoTagApp>>,
      <<RepoTagApp, BugTag, ClosedForumTag, Tag(8, SYNC_LABEL, NoEmoji)>>,
      <<Tag(1, "app", NoEmoji), BugTag>>,
      Forum(ForumTagLimit - 2, TRUE, NoEmoji),
      Forum(ForumTagLimit - 1, TRUE, NoEmoji),
      Forum(ForumTagLimit, TRUE, NoEmoji),
      Append(Forum(ForumTagLimit - 1, TRUE, NoEmoji), RepoTagApp) }

\* the labels the issue is opened with
CreateLabels ==
    { <<>>, <<"Bug">>, <<"bug", "Bug", "ui">>, <<"app", "Bug">>,
      <<CLOSED_TAG_NAME, "Bug", CLOSED_TAG_LEGACY_NAME, "Closed">>,
      <<"a", "b", "c", "d">>, <<"a", "b", "c", "d", "e", "f">>,
      <<"t2", "t3", "t4", "t5", "t6", "Bug">> }

InitCreate ==
    /\ NoParse /\ NoFinds /\ NoCache
    /\ threads = <<>>
    /\ availableTags \in CreateForums
    /\ archPages = HonestPages
    /\ gh = InitTracker
    /\ lastInstallationId = InstallationId
    /\ runs = <<>>
    /\ \E labels \in CreateLabels : inbox = {OpenedEvent(InstallationId, labels)}

NextCreate ==
    \/ \E e \in inbox : Deliver(e)
    \/ \E i \in 1..Len(runs) : Step(i)

SpecCreate == InitCreate /\ [][NextCreate]_vars

\* the forum's tag for the repository of run r, once the thread exists
RepoSelectorOf(r) ==
    { i \in 1..Len(availableTags) :
        /\ Lower(availableTags[i].name) = Lower(r.ev.repo)
        /\ isRepoSelectorTag(availableTags[i]) }

\* tag id x is the forum tag of one of the issue's labels that are kept
LabelDerived(r, x) ==
    \E i \in 1..Len(availableTags), j \in 1..Len(r.ev.issue.labels) :
        /\ availableTags[i].id = x
        /\ Lower(availableTags[i].name) = Lower(r.ev.issue.labels[j])
        /\ ~isSyncLabel(r.ev.issue.labels[j])
        /\ ~isClosedTagName(r.ev.issue.labels[j])

\* the tags of the thread run r created: at most 5, none the forum's sync tag or a
\* closed-state tag, all but the repository's derived from a label; withRepoTag
\* says whether the repository's tag is required whatever the forum
CreatedTags(r, withRepoTag) ==
    LET applied == threads[r.created].appliedTags
    IN  /\ Len(applied) <= ThreadTagLimit
        /\ \A k \in 1..Len(applied), i \in 1..Len(availableTags) :
              availableTags[i].id = applied[k]
                 => /\ ~isSyncLabel(availableTags[i].name)
                    /\ ~isClosedTag(availableTags[i])
        /\ \A k, l \in 1..Len(applied) : applied[k] = applied[l] => k = l
        /\ IF RepoSelectorOf(r) # {}
           THEN /\ applied # <<>>
                /\ \E i \in RepoSelectorOf(r) : availableTags[i].id = applied[1]
                /\ \A k \in 2..Len(applied) : LabelDerived(r, applied[k])
           ELSE /\ ~withRepoTag
                /\ Len(availableTags) = ForumTagLimit
                /\ \A k \in 1..Len(applied) : LabelDerived(r, applied[k])

\* C31 as stated: a thread created for an issue carries the repository-selector
\* tag plus at most 4 label-derived tags, at most 5 in all, none derived from the
\* sync marker label or the closed-state label
C31_CreatedThreadTags ==
    \A i \in 1..Len(runs) : runs[i].created # 0 => CreatedTags(runs[i], TRUE)

\* C31 amended: the same, where the repository-selector tag is missing when the
\* forum lacks it and is full; the thread then carries label-derived tags only
C31_CreatedThreadTagsWithinLimits ==
    \A i \in 1..Len(runs) : runs[i].created # 0 => CreatedTags(runs[i], FALSE)

\* an issue of six labels gave a thread with the repository's tag and four more
C31_Witness ==
    \E i \in 1..Len(runs) :
        /\ runs[i].created # 0
        /\ Len(runs[i].ev.issue.labels) = 6
        /\ Len(threads[runs[i].created].appliedTags) = ThreadTagLimit
        /\ RepoSelectorOf(runs[i]) # {}

(***************************************************************************)
(* SpecInstallation: deliveries with and without payload.installation, and *)
(* chat events while lastInstallationId is or is not known (wrapHandler    *)
(* utils.js 1125-1146, getOctokit 1028-1033).                              *)
(***************************************************************************)
InstallThreads == <<SyncedThread, HumanThread(<<1>>)>>
InstallForum   == <<RepoTagApp, BugTag>>

InstallEvents ==
    { OpenedEvent(0, <<>>), OpenedEvent(InstallationId, <<>>),
      [CommentEvent(2, <<SYNC_LABEL>>, "carol", Text) EXCEPT !.installation = 0],
      [CommentEvent(1, <<>>, "carol", Text) EXCEPT !.installation = 0],
      CommentEvent(2, <<SYNC_LABEL>>, "carol", Text) }

InitInstallation ==
    /\ NoParse /\ NoFinds /\ NoCache
    /\ threads = InstallThreads
    /\ availableTags = InstallForum
    /\ archPages = HonestPages
    /\ gh = InitTracker
    /\ lastInstallationId \in {0, InstallationId}
    /\ runs = <<>>
    /\ inbox \in { {} } \cup { {e} : e \in InstallEvents }

\* what is in the inbox came from the tracker / from the gateway
TrackerInbox == { x \in inbox : "type" \in DOMAIN x }
GatewayInbox == \A x \in inbox : "thread" \in DOMAIN x

NextInstallation ==
    \/ \E e \in TrackerInbox : Deliver(e)
    \/ \E i \in 1..Len(runs) : Step(i)
    \/ Write
    \/ Opened
    \/ PersonEditsTags
    \/ (GatewayInbox /\ ThreadUpdated)

SpecInstallation == InitInstallation /\ [][NextInstallation]_vars

\* run r handled a webhook that carried no installation id
WithoutInstallation(r) ==
    r.kind \in {"issues.opened", "issue_comment.created"} /\ r.ev.installation = 0

\* run r handled a chat event while no installation id was known
ChatRunWithoutInstallation(r) ==
    r.kind \in {"message", "thread", "threadUpdate"} /\ r.installationId = 0

\* C32: an issue-opened or comment-created delivery without an installation id is
\* dropped: no tracker call, no chat session; while no installation id is known,
\* the chat handlers make no tracker call and change nothing of the chat (the
\* applied tags of a thread-update run are those of the person's edit it reports)
C32_NoInstallationNoEffect ==
    /\ \A i \in 1..Len(runs) :
          /\ WithoutInstallation(runs[i])
                => /\ runs[i].pc = "done" /\ runs[i].calls = <<>>
                   /\ runs[i].created = 0 /\ runs[i].found = <<>>
          /\ ChatRunWithoutInstallation(runs[i])
                => /\ runs[i].calls = <<>>
                   /\ runs[i].kind # "threadUpdate"
                         => runs[i].tagsAfter = runs[i].tagsBefore
    /\ lastInstallationId = 0
          => /\ gh = InitTracker
             /\ availableTags = InstallForum
             /\ Len(threads) = Len(InstallThreads)
             /\ \A t \in 1..Len(threads) :
                   [threads[t] EXCEPT !.appliedTags = <<>>]
                      = [InstallThreads[t] EXCEPT !.appliedTags = <<>>]
             /\ \A i \in 1..Len(runs) : runs[i].calls = <<>>

\* a delivery without installation id was dropped and a person's message in the
\* synced thread then found no installation to write with
C32_Witness ==
    /\ lastInstallationId = 0
    /\ Len(runs) = 2
    /\ WithoutInstallation(runs[1])
    /\ runs[2].kind = "message" /\ runs[2].thrown /\ runs[2].thread = 1

(***************************************************************************)
(* The cache's timer, file calls and load (utils.js 324-397)               *)
(***************************************************************************)
Timer == [op |-> "timer"]
ReadFile(waiter) == [op |-> "readFile", waiter |-> waiter]

InFlight(pending, op) == { i \in 1..Len(pending) : pending[i].op = op }

\* a sequence without its i-th element
Without(s, i) == SubSeq(s, 1, i - 1) \o SubSeq(s, i + 1, Len(s))

ArmTimer_Always(timer, pending) == Append(pending, Timer)

\* scheduleThreadCacheSave(): if (threadCacheSaveTimer) return; setTimeout(...)
ArmTimer(timer, pending) == IF timer THEN pending ELSE Append(pending, Timer)

\* a file write that starts while another is in progress, and the writes it meets
Raced(w, payloads) == [w EXCEPT !.raced = @ \cup payloads]

\* the content of a file that two overlapping writes have written together: text
\* that JSON.parse rejects (a value of the files' type that is no cache)
CorruptFile == [k \in {<<"?", "?", 0>>} |-> NoEntry]

\* the cache operations of the handlers: get, set and delete on issues of acme/app
CacheOps ==
    { [kind |-> "get", n |-> n, entry |-> NoEntry] : n \in QueryIssues }
    \cup { [kind |-> "set", n |-> n, entry |-> CacheEntry(t, <<"thread">>)] :
             n \in QueryIssues, t \in 1..2 }
    \cup { [kind |-> "delete", n |-> n, entry |-> NoEntry] : n \in QueryIssues }

\* the map after the operation (what follows `await loadThreadCache()`)
ApplyOp(cache, o) ==
    CASE o.kind = "set"    -> setThreadCacheEntry(cache, "acme", "app", o.n, o.entry)
      [] o.kind = "delete" -> deleteThreadCacheEntry(cache, "acme", "app", o.n)
      [] OTHER             -> cache

\* what the operation leaves in the log: what it read, and whether the load's
\* readFile was in progress when it touched the map
Logged(cache, pending, o) ==
    [kind |-> o.kind, n |-> o.n, entry |-> o.entry,
     result |-> getThreadCacheEntry(cache, "acme", "app", o.n),
     loading |-> InFlight(pending, "readFile") # {}]

MaxCacheLog == 5

\* the log's entry of a finished load: the file that was read and the map it left
LoadedEntry(cache, file) == [kind |-> "loaded", cache |-> cache, file |-> file]

\* everything of an operation after its `await loadThreadCache()`
Continue(cache, timer, pending, log, o) ==
    [cache |-> ApplyOp(cache, o),
     timer |-> IF o.kind = "get" THEN timer ELSE scheduleThreadCacheSave(timer),
     pending |-> IF o.kind = "get" THEN pending ELSE ArmTimer(timer, pending),
     log |-> Append(log, Logged(cache, pending, o))]

\* get/set/deleteThreadCacheEntry of a handler when threadCacheLoaded is set:
\* loadThreadCache returns at once and the map is read or changed
CacheOp ==
    \E o \in CacheOps :
    \E c \in { Continue(threadCache, threadCacheSaveTimer, pendingIo, runs, o) } :
        /\ threadCacheLoaded
        /\ Len(runs) < MaxCacheLog
        /\ threadCache' = c.cache
        /\ threadCacheSaveTimer' = c.timer
        /\ pendingIo' = c.pending
        /\ runs' = c.log
        /\ UNCHANGED <<parseVars, chatVars, cacheFile, threadCacheLoaded, findVars,
                       gh, lastInstallationId, inbox>>

\* the first cache operation of the process: loadThreadCache sets the flag and
\* awaits fs.readFile; the operation waits for it
StartLoad ==
    \E o \in CacheOps :
        /\ ~threadCacheLoaded
        /\ threadCacheLoaded' = TRUE
        /\ pendingIo' = Append(pendingIo, ReadFile(o))
        /\ UNCHANGED <<parseVars, chatVars, threadCache, threadCacheSaveTimer, cacheFile,
                       findVars, trackerVars>>

\* loadThreadCache after the read: every entry of the file is set in the map
LoadEntries(cache, file) ==
    IF file = CorruptFile THEN cache
    ELSE [k \in DOMAIN cache \cup DOMAIN file |-> IF k \in DOMAIN file THEN file[k] ELSE cache[k]]

\* fs.readFile resolves: the file's entries are set, then the waiting operation goes on
ReadFinishes ==
    \E i \in InFlight(pendingIo, "readFile") :
    \E c \in { Continue(LoadEntries(threadCache, cacheFile), threadCacheSaveTimer,
                        Without(pendingIo, i),
                        Append(runs, LoadedEntry(LoadEntries(threadCache, cacheFile),
                                                 cacheFile)),
                        pendingIo[i].waiter) } :
        /\ threadCache' = c.cache
        /\ threadCacheSaveTimer' = c.timer
        /\ pendingIo' = c.pending
        /\ runs' = c.log
        /\ UNCHANGED <<parseVars, chatVars, cacheFile, threadCacheLoaded, findVars,
                       gh, lastInstallationId, inbox>>

\* fs.writeFile resolves. A write that overlapped another leaves its payload, the
\* other's, or a mix of both
WriteFinishes ==
    \E i \in InFlight(pendingIo, "writeFile") :
        /\ cacheFile' \in {pendingIo[i].payload} \cup pendingIo[i].raced
                          \cup (IF pendingIo[i].raced \subseteq {pendingIo[i].payload}
                                THEN {} ELSE {CorruptFile})
        /\ pendingIo' = Without(pendingIo, i)
        /\ UNCHANGED <<parseVars, chatVars, threadCache, threadCacheSaveTimer,
                       threadCacheLoaded, findVars, trackerVars>>

\* saveThreadCache() up to its await: the payload is the map's entries now, and
\* fs.writeFile is called with it while the earlier writes may still be in progress
saveThreadCache(cache, pending) ==
    Append([i \in 1..Len(pending) |->
               IF pending[i].op = "writeFile" THEN Raced(pending[i], {cache})
               ELSE pending[i]],
           [op |-> "writeFile", payload |-> cache,
            raced |-> { pending[i].payload : i \in InFlight(pending, "writeFile") }])

\* the timer fires: threadCacheSaveTimer = null; saveThreadCache()
SaveTimerFires ==
    \E i \in InFlight(pendingIo, "timer") :
        /\ threadCacheSaveTimer' = FALSE
        /\ pendingIo' = saveThreadCache(threadCache, Without(pendingIo, i))
        /\ runs' = Append(runs, [kind |-> "flush",
                                 payload |-> pendingIo'[Len(pendingIo')].payload])
        /\ UNCHANGED <<parseVars, chatVars, threadCache, cacheFile, threadCacheLoaded,
                       findVars, gh, lastInstallationId, inbox>>

(***************************************************************************)
(* SpecFlush: handlers read, set and delete cache entries while the        *)
(* debounce timer and the file writes run; the cache's load has finished.  *)
(***************************************************************************)

InitFlush ==
    /\ NoParse /\ NoChat /\ NoFinds
    /\ gh = NoIssues /\ lastInstallationId = 0 /\ inbox = {}
    /\ threadCache \in LoadedCaches
    /\ cacheFile = threadCache
    /\ threadCacheSaveTimer = FALSE
    /\ Loaded
    /\ runs = <<LoadedEntry(threadCache, cacheFile)>>

NextFlush == CacheOp \/ SaveTimerFires \/ WriteFinishes

SpecFlush == InitFlush /\ [][NextFlush]_vars

RECURSIVE Replay(_, _)
\* the map that the first i entries of the log make
Replay(log, i) ==
    IF i = 0 THEN EmptyCache
    ELSE CASE log[i].kind = "loaded" -> log[i].cache
           [] log[i].kind \in {"get", "set", "delete"} -> ApplyOp(Replay(log, i - 1), log[i])
           [] OTHER -> Replay(log, i - 1)

Mutations == {"set", "delete"}

\* C33: at most one flush timer is armed at any time, and it is the one the module
\* variable holds; every set or delete leaves a timer pending unless a flush has
\* fired since; and the payload of every flush is the map as the operations before
\* the firing made it, so it contains every mutation made before the timer fired.
C33_SinglePendingFlush ==
    /\ Cardinality(InFlight(pendingIo, "timer")) <= 1
    /\ threadCacheSaveTimer <=> InFlight(pendingIo, "timer") # {}
    /\ \A i \in 1..Len(runs) :
          /\ runs[i].kind = "flush" => runs[i].payload = Replay(runs, i - 1)
          /\ runs[i].kind \in Mutations =>
                \/ threadCacheSaveTimer
                \/ \E j \in (i + 1)..Len(runs) : runs[j].kind = "flush"

\* two mutations of different issues were made while one timer was pending, and the
\* flush that fired carries both
C33_Witness ==
    \E i \in 3..Len(runs) :
        /\ runs[i].kind = "flush"
        /\ runs[i - 1].kind = "set" /\ runs[i - 2].kind = "set"
        /\ runs[i - 1].n # runs[i - 2].n
        /\ getThreadCacheEntry(runs[i].payload, "acme", "app", runs[i - 1].n)
              = runs[i - 1].entry
        /\ getThreadCacheEntry(runs[i].payload, "acme", "app", runs[i - 2].n)
              = runs[i - 2].entry

\* a flush has fired
Flushed == \E i \in 1..Len(runs) : runs[i].kind = "flush"

\* C34: at most one write of the cache file is in progress at any moment, the file is
\* never corrupt, and once no timer and no write is pending it holds the map.
C34_SingleWriter ==
    /\ Cardinality(InFlight(pendingIo, "writeFile")) <= 1
    /\ cacheFile # CorruptFile
    /\ (Flushed /\ pendingIo = <<>>) => cacheFile = threadCache

(***************************************************************************)
(* SpecLoad: the first cache operations of the process. The first one      *)
(* starts the load and waits for fs.readFile; the others find              *)
(* threadCacheLoaded set.                                                  *)
(***************************************************************************)
InitLoad ==
    /\ NoParse /\ NoChat /\ NoFinds
    /\ gh = NoIssues /\ lastInstallationId = 0 /\ inbox = {}
    /\ threadCache = EmptyCache
    /\ cacheFile \in LoadedCaches
    /\ threadCacheSaveTimer = FALSE
    /\ threadCacheLoaded = FALSE
    /\ pendingIo = <<>>
    /\ runs = <<>>

\* the operations logged while and right after the load
MaxLoadLog == 3

NextLoad ==
    \/ StartLoad
    \/ (Len(runs) < MaxLoadLog /\ CacheOp)
    \/ ReadFinishes
    \/ SaveTimerFires
    \/ WriteFinishes

SpecLoad == InitLoad /\ [][NextLoad]_vars

\* the operations on issue n among the first i entries of the log
OpsOn(log, n, i) == { j \in 1..i : log[j].kind \in {"get", "set", "delete"} /\ log[j].n = n }

\* no operation reads or changes the map while the load's readFile is in progress
NoOpDuringLoad ==
    \A i \in 1..Len(runs) : runs[i].kind \in {"get", "set", "delete"} => ~runs[i].loading

\* the load leaves the latest concurrent set or delete of an issue in place
LoadKeepsMutations ==
    \A i \in 1..Len(runs) : \A n \in QueryIssues :
        (runs[i].kind = "loaded" /\ \E j \in OpsOn(runs, n, i) : runs[j].kind \in Mutations)
        => LET last == CHOOSE j \in OpsOn(runs, n, i) :
                           /\ runs[j].kind \in Mutations
                           /\ \A k \in OpsOn(runs, n, i) : runs[k].kind \in Mutations => k <= j
           IN  getThreadCacheEntry(runs[i].cache, "acme", "app", n) = runs[last].entry

\* a lookup that no set or delete of the issue precedes returns the file's entry
LookupSeesFile ==
    \A i \in 1..Len(runs) :
        (/\ runs[i].kind = "get"
         /\ \A j \in OpsOn(runs, runs[i].n, i) : runs[j].kind = "get"
         /\ cacheFile \in LoadedCaches)
        => runs[i].result = getThreadCacheEntry(cacheFile, "acme", "app", runs[i].n)

\* C35: the load is atomic with respect to the cache operations of other handlers:
\* none touches the map while the file is being read, an entry set or deleted
\* concurrently is not replaced or brought back by the file's value, and a lookup
\* does not miss an entry that the file holds.
C35_LoadAtomic == NoOpDuringLoad /\ LoadKeepsMutations /\ LookupSeesFile

(***************************************************************************)
(* SpecRace: handlers in flight at the same time. A handler works on what  *)
(* it read (the thread objects of its own session, the forum's tag list,   *)
(* the comments it fetched) and its writes replace whole lists: the        *)
(* applied tags of a thread, the tags of the forum, the body of a comment. *)
(***************************************************************************)
\* a handler in flight: its event, where it stands, the threads the locator gave it,
\* the thread objects and the forum tag list as its session holds them, the tag it
\* obtained, whether it made one (a labeled run) or wrote a comment (a message run),
\* the tracker as it read it, and the forum tags its write removed
RaceRun(kind, ev, pc, found, ths, seen) ==
    [kind |-> kind, ev |-> ev, pc |-> pc, found |-> found, ths |-> ths, tags |-> <<>>,
     tag |-> NoTag, created |-> FALSE, seen |-> seen, removed |-> {}]

\* handleIssueLabeled up to findThreadsForIssue (part_001 896-917)
LabeledLocates(e) ==
    /\ e.type = "issues.labeled"
    /\ \E f \in { findThreadsForIssue(threads, availableTags, threadCache, archPages,
                                      e.issue.number, e.owner, e.repo, e.issue.title,
                                      FALSE) } :
        /\ inbox' = inbox \ {e}
        /\ threadCache' = IF StructuralLabel(e) THEN threadCache ELSE f.cache
        /\ threadCacheSaveTimer' = IF ~StructuralLabel(e) /\ f.cacheWritten
                                   THEN scheduleThreadCacheSave(threadCacheSaveTimer)
                                   ELSE threadCacheSaveTimer
        /\ runs' = Append(runs,
                          IF StructuralLabel(e) \/ f.threads = <<>>
                          THEN RaceRun("labeled", e, "done", <<>>, threads, gh)
                          ELSE RaceRun("labeled", e, "forum", f.threads, threads, gh))
        /\ UNCHANGED <<parseVars, chatVars, cacheFile, cacheIo, findVars, gh,
                       lastInstallationId>>

\* getOrCreateForumTag up to its first await (utils.js 615-664): the tag is found
\* in the forum object, or the ceiling is hit, or setAvailableTags is called with
\* the list as the forum object has it plus the new tag
LabeledReadsForum(i) ==
    LET r == runs[i]
        existingTag == FindTagByName(availableTags, r.ev.label)
    IN  /\ r.kind = "labeled" /\ r.pc = "forum"
        /\ runs' = [runs EXCEPT ![i] =
                      [r EXCEPT !.tags = availableTags,
                                !.tag = existingTag,
                                !.pc = IF existingTag # NoTag THEN "apply"
                                       ELSE IF Len(availableTags) >= ForumTagLimit THEN "done"
                                       ELSE "create"]]
        /\ UNCHANGED <<parseVars, chatVars, cacheVars, findVars, gh, lastInstallationId,
                       inbox>>

\* forum.setAvailableTags([...forum.availableTags, newTag]) reaches the platform
\* (utils.js 664): the forum's tags become the list sent, the new tag gets a fresh id
LabeledCreatesTag(i) ==
    LET r == runs[i]
        sent == Append(r.tags, Tag(NewTagId(availableTags \o r.tags), r.ev.label, NoEmoji))
    IN  /\ r.kind = "labeled" /\ r.pc = "create"
        /\ availableTags' = sent
        /\ runs' = [runs EXCEPT ![i] =
                      [r EXCEPT !.pc = "refetch", !.created = TRUE,
                                !.removed = SeqToSet(availableTags) \ SeqToSet(sent)]]
        /\ UNCHANGED <<parseVars, threads, archPages, cacheVars, findVars, gh,
                       lastInstallationId, inbox>>

\* const updatedForum = await forum.fetch(); return updatedForum.availableTags.find(...)
\* (utils.js 667-670), then `if (!tag) return` (part_001 922-924)
LabeledRefetches(i) ==
    LET r == runs[i]
        tag == FindTagByName(availableTags, r.ev.label)
    IN  /\ r.kind = "labeled" /\ r.pc = "refetch"
        /\ runs' = [runs EXCEPT ![i] =
                      [r EXCEPT !.tags = availableTags, !.tag = tag,
                                !.pc = IF tag = NoTag THEN "done" ELSE "apply"]]
        /\ UNCHANGED <<parseVars, chatVars, cacheVars, findVars, gh, lastInstallationId,
                       inbox>>

\* the loop over the threads (part_001 926-949): thread.setAppliedTags([...currentTags,
\* tag.id]) with currentTags as the handler's thread object has them
LabeledApplies(i) ==
    LET r == runs[i] IN
    /\ r.kind = "labeled" /\ r.pc = "apply"
    /\ \E cs \in { AddTagToThreads(ChatState(r.ths, r.tags, <<>>), r.found, r.tag.id) } :
        /\ threads' = [t \in 1..Len(threads) |->
                         IF cs.ths[t].appliedTags # r.ths[t].appliedTags
                         THEN [threads[t] EXCEPT !.appliedTags = cs.ths[t].appliedTags]
                         ELSE threads[t]]
        /\ runs' = [runs EXCEPT ![i] = [r EXCEPT !.pc = "done"]]
        /\ UNCHANGED <<parseVars, availableTags, archPages, cacheVars, findVars, gh,
                       lastInstallationId, inbox>>

\* a gateway event brings the thread objects of a handler's session up to date
GatewayUpdate(i) ==
    /\ runs[i].kind = "labeled" /\ runs[i].pc \in {"forum", "create", "refetch", "apply"}
    /\ runs[i].ths # threads
    /\ runs' = [runs EXCEPT ![i].ths = threads]
    /\ UNCHANGED <<parseVars, chatVars, cacheVars, findVars, gh, lastInstallationId, inbox>>

RaceLogin == "bridge[bot]"

\* handleNewMessage up to the GET of the issue's comments (utils.js 1188-1259)
MessageReads(m) ==
    /\ m.type = "message"
    /\ \E out \in { handleNewMessage(gh, threads, availableTags, m.thread, m.msg,
                                     lastInstallationId, RaceLogin) } :
        /\ inbox' = inbox \ {m}
        /\ threads' = out.ths
        /\ availableTags' = out.tags
        /\ runs' = Append(runs, RaceRun("message", m, IF out.gh = gh THEN "done" ELSE "write",
                                        <<>>, threads, gh))
        /\ UNCHANGED <<parseVars, archPages, cacheVars, findVars, gh, lastInstallationId>>

\* the comments of the tracker after a handler's PATCH or POST: the handler computed
\* `result` from what it had `seen`
LandComments(live, seen, result) ==
    [live EXCEPT !.comments =
        [k \in DOMAIN @ |->
            IF result.comments[k] = seen.comments[k] THEN @[k]
            ELSE IF Len(result.comments[k]) = Len(seen.comments[k])
                 THEN [@[k] EXCEPT ![Len(seen.comments[k])] =
                                       result.comments[k][Len(seen.comments[k])]]
                 ELSE Append(@[k], result.comments[k][Len(result.comments[k])])]]

\* the PATCH of the last comment with `${lastComment.body}\n${newContent}`, or the
\* POST of a new comment (utils.js 1270-1296)
MessageWrites(i) ==
    LET r == runs[i] IN
    /\ r.kind = "message" /\ r.pc = "write"
    /\ \E out \in { handleNewMessage(r.seen, threads, availableTags, r.ev.thread, r.ev.msg,
                                     lastInstallationId, RaceLogin) } :
        /\ gh' = LandComments(gh, r.seen, out.gh)
        /\ runs' = [runs EXCEPT ![i] = [r EXCEPT !.pc = "done", !.created = TRUE]]
        /\ UNCHANGED <<parseVars, chatVars, cacheVars, findVars, lastInstallationId, inbox>>

\* a chat message in thread 1
Posted(username, n) ==
    [type |-> "message", thread |-> 1,
     msg |-> ChatMessage(username, FALSE, <<Tok("txt", n, "", "")>>, FALSE)]

\* forums that have the tags of both labels, of one, of none
RaceForums == { <<RepoTagApp, BugTag, UiTag>>, <<RepoTagApp, BugTag>>, <<RepoTagApp>> }

\* the comments issue 1 has: none, one mirrored from alice, one by somebody else
RaceComments ==
    { <<>>,
      <<TrackerComment(RaceLogin, formatDiscordAuthorComment("alice", Text), TRUE)>>,
      <<TrackerComment("carol", Text, FALSE)>> }

InitRace ==
    /\ NoParse /\ NoFinds /\ NoCache
    /\ availableTags \in RaceForums
    /\ threads \in { <<MirrorThread(<<1>>)>>, <<MirrorThread(<<1, 2>>)>> }
    /\ \A id \in SeqToSet(threads[1].appliedTags) :
          \E j \in 1..Len(availableTags) : availableTags[j].id = id
    /\ archPages = HonestPages
    /\ \E cs \in RaceComments :
          gh = [InitTracker EXCEPT !.labels[<<"acme", "app", 1>>] = {SYNC_LABEL},
                                   !.comments[<<"acme", "app", 1>>] = cs]
    /\ lastInstallationId = InstallationId
    /\ runs = <<>>
    /\ inbox \in { {LabeledEvent("bug"), LabeledEvent("ui")},
                   {Posted("alice", 1), Posted("alice", 2)},
                   {LabeledEvent("ui"), LabeledEvent("new"), Posted("alice", 1)} }

NextRace ==
    \/ \E e \in inbox : LabeledLocates(e)
    \/ \E i \in 1..Len(runs) : LabeledReadsForum(i)
    \/ \E i \in 1..Len(runs) : LabeledCreatesTag(i)
    \/ \E i \in 1..Len(runs) : LabeledRefetches(i)
    \/ \E i \in 1..Len(runs) : LabeledApplies(i)
    \/ \E i \in 1..Len(runs) : GatewayUpdate(i)
    \/ \E m \in inbox : MessageReads(m)
    \/ \E i \in 1..Len(runs) : MessageWrites(i)

SpecRace == InitRace /\ [][NextRace]_vars

\* every handler has finished
Quiet == inbox = {} /\ \A i \in 1..Len(runs) : runs[i].pc = "done"

\* C36: when the handlers of two label-added events for different non-structural
\* labels of one issue have both finished, every thread they located that had room
\* for both tags carries the tag each handler obtained.
C36_BothTagsApplied ==
    Quiet =>
        \A i \in 1..Len(runs) : \A t \in SeqToSet(runs[i].found) :
            (/\ runs[i].kind = "labeled" /\ runs[i].tag # NoTag
             /\ Len(runs[i].ths[t].appliedTags) + 2 <= ThreadTagLimit)
            => SeqContains(threads[t].appliedTags, runs[i].tag.id)

\* the forum has a tag of that name
HasTagNamed(tags, name) == FindTagByName(tags, name) # NoTag

\* C37: when two calls of getOrCreateForumTag for names the forum lacked have both
\* completed, the forum has a tag of each name, neither call's write removed a tag,
\* and each call returned a tag of the requested name.
C37_BothTagsCreated ==
    Quiet =>
        \A i \in 1..Len(runs) :
            (runs[i].kind = "labeled" /\ runs[i].created)
            => /\ HasTagNamed(availableTags, runs[i].ev.label)
               /\ runs[i].removed = {}
               /\ runs[i].tag # NoTag /\ Lower(runs[i].tag.name) = Lower(runs[i].ev.label)

\* C38: when the handlers of two chat messages of one author have both finished,
\* the content of each message is in a comment of the issue.
C38_BothContentsKept ==
    Quiet =>
        \A i \in 1..Len(runs) :
            (runs[i].kind = "message" /\ runs[i].created)
            => \E c \in SeqToSet(gh.comments[<<"acme", "app", 1>>]) :
                  \E j \in 1..Len(c.body) : c.body[j] = runs[i].ev.msg.content[1]

(***************************************************************************)
(* SpecTransparent: the locator asked again and again in a forum whose     *)
(* threads are deleted, moved or lose their pinned marker, the cache       *)
(* holding what the bridge wrote.                                          *)
(***************************************************************************)
\* thread t carries the current marker of acme/app#n
CarriesMarker(ths, t, n) == SeqContains(ths[t].pinned, SyncMarker(n, "acme", "app"))

\* the caches the bridge leaves behind: empty, or the entry createDiscordThread
\* writes for the thread it has just made and pinned (part_001 529-535)
WrittenAtCreation(ths) ==
    {EmptyCache} \cup
    UNION { { setThreadCacheEntry(EmptyCache, "acme", "app", n, CacheEntry(t, ths[t].name)) :
                t \in { u \in 1..Len(ths) : CarriesMarker(ths, u, n) } } :
            n \in QueryIssues }

\* somebody unpins the pinned messages of a thread
Unpin ==
    /\ \E t \in 1..Len(threads) :
          /\ InForum(threads[t])
          /\ threads[t].pinned # <<>>
          /\ threads' = [threads EXCEPT ![t].pinned = <<>>]
    /\ UNCHANGED <<parseVars, availableTags, archPages, cacheVars, findVars, trackerVars>>

InitTransparent ==
    /\ NoParse /\ NoFinds /\ NoTracker
    /\ threads \in { BaseThreads({}),
                     <<MirrorThread(<<1>>), MirrorThread(<<1>>), HumanThread(<<1>>)>> }
    /\ availableTags = <<RepoTagApp, BugTag>>
    /\ archPages = HonestPages
    /\ threadCache \in WrittenAtCreation(threads)
    /\ cacheFile = threadCache
    /\ threadCacheSaveTimer = FALSE
    /\ Loaded

NextTransparent == Find \/ DeleteThread \/ MoveThread \/ Unpin

SpecTransparent == InitTransparent /\ [][NextTransparent]_vars

\* the answer for (n, owner, repo, title) from the cache as it is, and from an
\* empty cache
Warm(n, a) ==
    findThreadsForIssue(threads, availableTags, threadCache, archPages, n, a[1], a[2], a[3],
                        FALSE)
Cold(n, a) ==
    findThreadsForIssue(threads, availableTags, EmptyCache, archPages, n, a[1], a[2], a[3],
                        FALSE)

\* C39: in every forum state, a call answered from the cache returns what the full
\* search on an empty cache returns, and so only threads the search returns.
C39_CacheTransparent ==
    \A n \in QueryIssues, a \in FindArgs :
        Warm(n, a).hit =>
            /\ Warm(n, a).threads = Cold(n, a).threads
            /\ SeqToSet(Warm(n, a).threads) \subseteq SeqToSet(Cold(n, a).threads)

(***************************************************************************)
(* The marker as text (utils.js 540-548). A text is a sequence of pieces:  *)
(* the fixed parts below, each one piece, and the characters of numbers    *)
(* and names, one piece each.                                              *)
(***************************************************************************)
\* (a backtick is written BT in the pieces' names)
SYNCED == "BT Synced with issue #"
TICK   == "BT"
ON     == " on ["
LINKTO == "]("
GITHUB == "https://github.com/"
SLASH  == "/"
RPAREN == ")"
FOLLOW == " . [follow on github"
ISSUES == "issues"

Digits == <<"0", "1", "2", "3", "4", "5", "6", "7", "8", "9">>
IsDigit(c) == \E d \in 1..10 : Digits[d] = c

RECURSIVE ToDigits_Reversed(_)
ToDigits_Reversed(n) ==
    IF n < 10 THEN <<Digits[n + 1]>>
    ELSE <<Digits[(n % 10) + 1]>> \o ToDigits_Reversed(n \div 10)

RECURSIVE ToDigits(_)
\* `${issueNumber}`: the decimal digits of the number
ToDigits(n) ==
    IF n < 10 THEN <<Digits[n + 1]>>
    ELSE Append(ToDigits(n \div 10), Digits[(n % 10) + 1])

RECURSIVE parseInt(_)
\* parseInt(digits, 10) of a run of digits
parseInt(ds) ==
    IF ds = <<>> THEN 0
    ELSE 10 * parseInt(SubSeq(ds, 1, Len(ds) - 1))
         + (CHOOSE d \in 0..9 : Digits[d + 1] = ds[Len(ds)])

RECURSIVE RunFrom(_, _, _)
\* the longest run of pieces from i on that are not in `stop`: [^/]+ and [^/)]+
RunFrom(text, i, stop) ==
    IF i > Len(text) \/ text[i] \in stop THEN <<>>
    ELSE <<text[i]>> \o RunFrom(text, i + 1, stop)

RECURSIVE DigitsFrom(_, _)
\* \d+ from i on
DigitsFrom(text, i) ==
    IF i > Len(text) \/ ~IsDigit(text[i]) THEN <<>>
    ELSE <<text[i]>> \o DigitsFrom(text, i + 1)

At(text, i) == IF i >= 1 /\ i <= Len(text) THEN text[i] ELSE ""

\* owner and repository names, and the characters of each
Names == {"acme", "app", "a-b", "x.y", "n_1", "on"}
Chars(name) ==
    CASE name = "acme" -> <<"a", "c", "m", "e">>
      [] name = "app"  -> <<"a", "p", "p">>
      [] name = "a-b"  -> <<"a", "-", "b">>
      [] name = "x.y"  -> <<"x", ".", "y">>
      [] name = "n_1"  -> <<"n", "_", "1">>
      [] name = "on"   -> <<"o", "n">>
      [] OTHER         -> <<>>

\* the string a run of characters makes
Joined(run) ==
    IF \E name \in Names : Chars(name) = run
    THEN CHOOSE name \in Names : Chars(name) = run
    ELSE ""

\* https://github.com/owner/repo/issues/N
HtmlUrl(owner, repo, n) ==
    <<GITHUB>> \o Chars(owner) \o <<SLASH>> \o Chars(repo) \o <<SLASH, ISSUES, SLASH>>
    \o ToDigits(n)

\* createSyncEmbed(issueNumber, title, body, htmlUrl, author, repoName).content:
\* htmlUrl.match(/github\.com\/([^/]+)\/([^/]+)/) gives the owner ('' without a match)
createSyncEmbed(issueNumber, htmlUrl, repoName) ==
    LET first == RunFrom(htmlUrl, 2, {SLASH})
        second == RunFrom(htmlUrl, 3 + Len(first), {SLASH})
        urlMatch == At(htmlUrl, 1) = GITHUB /\ first # <<>>
                    /\ At(htmlUrl, 2 + Len(first)) = SLASH /\ second # <<>>
        owner == IF urlMatch THEN first ELSE <<>>
    IN  <<SYNCED>> \o ToDigits(issueNumber) \o <<TICK, ON>> \o Chars(repoName)
        \o <<LINKTO, GITHUB>> \o owner \o <<SLASH>> \o Chars(repoName) \o <<RPAREN>>
        \o <<FOLLOW, LINKTO>> \o htmlUrl \o <<RPAREN>>

\* where ` on [.+?](https://github.com/([^/]+)/([^/)]+)` matches from piece i on:
\* the position of the first `](` that the rest of the pattern follows, 0 for none
LinkAt(text, i) ==
    LET Fits(j) ==
            /\ At(text, j) = LINKTO /\ At(text, j + 1) = GITHUB
            /\ RunFrom(text, j + 2, {SLASH}) # <<>>
            /\ At(text, j + 2 + Len(RunFrom(text, j + 2, {SLASH}))) = SLASH
            /\ RunFrom(text, j + 3 + Len(RunFrom(text, j + 2, {SLASH})), {SLASH, RPAREN}) # <<>>
        js == { j \in (i + 2)..Len(text) : Fits(j) }
    IN  IF At(text, i) = ON /\ js # {} THEN CHOOSE j \in js : \A k \in js : j <= k ELSE 0

RECURSIVE Tokenise(_, _)
\* the tokens the patterns of the parsers see in a text, from piece i on
Tokenise(text, i) ==
    IF i > Len(text) THEN <<>>
    ELSE LET ds == DigitsFrom(text, i + 1)
             j == LinkAt(text, i)
             o == RunFrom(text, j + 2, {SLASH})
             r == RunFrom(text, j + 3 + Len(o), {SLASH, RPAREN})
             uo == RunFrom(text, i + 1, {SLASH})
             ur == RunFrom(text, i + 2 + Len(uo), {SLASH})
             un == DigitsFrom(text, i + 5 + Len(uo) + Len(ur))
         IN  IF text[i] = SYNCED /\ ds # <<>> /\ At(text, i + 1 + Len(ds)) = TICK
             THEN <<Tok("cur", parseInt(ds), "", "")>> \o Tokenise(text, i + 2 + Len(ds))
             ELSE IF j # 0
             THEN <<Tok("link", 0, Joined(o), Joined(r))>> \o Tokenise(text, j + 3 + Len(o) + Len(r))
             ELSE IF /\ text[i] = GITHUB /\ uo # <<>> /\ ur # <<>> /\ un # <<>>
                     /\ At(text, i + 1 + Len(uo)) = SLASH
                     /\ At(text, i + 2 + Len(uo) + Len(ur)) = SLASH
                     /\ At(text, i + 3 + Len(uo) + Len(ur)) = ISSUES
                     /\ At(text, i + 4 + Len(uo) + Len(ur)) = SLASH
             THEN <<Tok("url", 0, Joined(uo), Joined(ur))>>
                  \o Tokenise(text, i + 5 + Len(uo) + Len(ur) + Len(un))
             ELSE <<Tok("txt", 0, "", "")>> \o Tokenise(text, i + 1)

(***************************************************************************)
(* SpecMarker: the bridge writes the marker of an issue and pins it; the   *)
(* parsers read it back.                                                   *)
(***************************************************************************)
\* issue numbers of one, two and three digits
MarkerNumbers == {1, 9, 10, 42, 100, 101}

InitMarker ==
    /\ NoParse /\ NoChat /\ NoCache /\ NoFinds /\ NoTracker

\* createSyncEmbed for issue n of owner/repo, pinned and read by getSyncedIssueInfo
WriteMarker ==
    \E n \in MarkerNumbers, owner \in Names, repo \in Names :
    \E content \in { createSyncEmbed(n, HtmlUrl(owner, repo, n), repo) } :
        /\ pins' = <<Tokenise(content, 1)>>
        /\ issuesOut' = getSyncedIssueInfo(pins')
        /\ done' = TRUE
        /\ runs' = <<[number |-> n, owner |-> owner, repo |-> repo, content |-> content]>>
        /\ UNCHANGED <<chatVars, cacheVars, findVars, gh, lastInstallationId, inbox>>

NextMarker == WriteMarker

SpecMarker == InitMarker /\ [][NextMarker]_vars

\* C40: the marker createSyncEmbed writes for issue N of owner/repo is parsed back by
\* getSyncedIssueInfo as exactly {N, owner, repo}, matches the locator's content
\* confirmation for (N, owner, repo), and starts with the text by which the
\* new-thread handler recognises a sync marker.
C40_MarkerRoundTrip ==
    done =>
        /\ issuesOut = <<IssueRef(runs[1].number, runs[1].owner, runs[1].repo)>>
        /\ MessageMatch(pins[1], runs[1].number, runs[1].owner, runs[1].repo).match
        /\ Head(runs[1].content) = SYNCED
        /\ Head(pins[1]).k \in {"cur", "leg"}

\* the marker of an issue with a number of three digits, in a repository whose names
\* hold a hyphen and a dot
C40_Witness ==
    /\ done
    /\ runs[1].number = 101
    /\ runs[1].owner = "a-b" /\ runs[1].repo = "x.y"
    /\ issuesOut = <<IssueRef(101, "a-b", "x.y")>>

====
